---- MODULE Spec2Model ----
(***************************************************************************)
(* Model of the DentScan desktop service: the PACS upload orchestrator     *)
(* (services/pacs_uploader.py) and the case scan, classifier and stager    *)
(* (services/folder_monitor.py).                                           *)
(*                                                                         *)
(* Two groups of variables are kept apart:                                 *)
(*   - the upload group (upVars): the Orthanc folders on disk, the         *)
(*     process-wide set of active uploads, the PACS store, the threads     *)
(*     calling upload_folder_async and the worker threads;                 *)
(*   - the scan group (scanVars): the day root with its case folders, the  *)
(*     staging tree and the position of the scan.                          *)
(* Each specification moves one group and leaves the other unchanged.      *)
(***************************************************************************)
EXTENDS Integers, Sequences, FiniteSets, TLC

VARIABLES
  folderFiles,            \* Orthanc folder -> the *.dcm files it holds
  orthanc,                \* Orthanc folder -> [lock, progress, temp] on disk
  ACTIVE_UPLOAD_FOLDERS,  \* PacsUploader._ACTIVE_UPLOAD_FOLDERS (class attribute)
  pacs,                   \* the instances the PACS stores: records [sop, series]
  callers,                \* thread -> its position inside upload_folder_async
  runs                    \* the worker threads started so far, in start order

upVars == <<folderFiles, orthanc, ACTIVE_UPLOAD_FOLDERS, pacs, callers, runs>>

VARIABLES
  root,                   \* the case folders of the day root, in iterdir order
  staging,                \* case -> what its staging folder holds
  scan,                   \* the scan in progress (or the one that just ended)
  last,                   \* what the scan did with the case it visited last
  uid                     \* how many UIDs generate_uid() has handed out

scanVars == <<root, staging, scan, last, uid>>

VARIABLES
  driver,                 \* CodeIWantToRun.main: where the driver thread stands
  stop_event              \* MyService.stop_event (threading.Event)

drvVars == <<driver, stop_event>>

VARIABLES
  _token,                 \* PacsUploader._token, the cached _TokenState
  issued,                 \* how many tokens the token endpoint has handed out
  granted,                \* when the token issued last was fetched, and its expires_in
  now,                    \* time.time(), in units of ten seconds
  handed,                 \* what the last call of _get_token did
  sent,                   \* the requests of the call in progress, with their answers
  call,                   \* the PacsUploader request method in progress
  getters                 \* thread -> its position inside _get_token

reqVars == <<_token, issued, granted, now, handed, sent, call, getters>>

VARIABLES
  mono,                   \* time.monotonic(), in half seconds
  conf,                   \* PACS_MAX_UPLOAD_BPS: environment, service_config.py, module
  uploader,               \* the PacsUploader that uploads: cap and reload state
  body,                   \* the _ProgressFile of the upload in progress
  chunk                   \* what the last call of _ProgressFile.read did

thrVars == <<mono, conf, uploader, body, chunk>>

VARIABLES
  clock,                  \* the day datetime.now() gives
  dayroots,               \* day -> the case folders in the root folder of that day
  finder,                 \* the position of find_cases between its clock reads
  placed                  \* the case staging folders find_cases has used

dayVars == <<clock, dayroots, finder, placed>>

-----------------------------------------------------------------------------
(* Bounds of the upload model. *)

\* worker threads started in one behaviour
MaxRuns == 2
\* *.dcm files in one Orthanc folder
MaxUploadFiles == 2
\* *.dcm files in one Orthanc folder when two threads call
MaxRaceFiles == 1

-----------------------------------------------------------------------------
(* Paths.  A path is a sequence of segments; several spellings name the     *)
(* same folder.                                                             *)

PathA == <<"stg", "A", "Orthanc">>
PathAUp == <<"stg", "B", "..", "A", ".", "ORTHANC">>
PathB == <<"stg", "B", "Orthanc">>
Paths == {PathA, PathAUp, PathB}

\* os.path.normcase on Windows: lower-case every segment
normcase(seg) ==
  CASE seg = "A" -> "a"
    [] seg = "B" -> "b"
    [] seg = "Orthanc" -> "orthanc"
    [] seg = "ORTHANC" -> "orthanc"
    [] OTHER -> seg

\* Path.resolve(): drop "." segments, let ".." cancel the segment before it
RECURSIVE resolve(_, _)
resolve(done, rest) ==
  IF rest = <<>> THEN done
  ELSE IF Head(rest) = "." THEN resolve(done, Tail(rest))
  ELSE IF Head(rest) = ".."
    THEN resolve(IF done = <<>> THEN done ELSE SubSeq(done, 1, Len(done) - 1), Tail(rest))
  ELSE resolve(Append(done, Head(rest)), Tail(rest))

_folder_key(folder) ==
  LET r == resolve(<<>>, folder) IN [i \in 1..Len(r) |-> normcase(r[i])]

\* The directory the operating system opens for a path (a case-insensitive
\* file system that follows "." and "..").
RealDir(path) ==
  LET r == resolve(<<>>, path) IN [i \in 1..Len(r) |-> normcase(r[i])]

Dirs == {RealDir(p) : p \in Paths}

-----------------------------------------------------------------------------
(* Files and the PACS.                                                      *)

NoUid == 0

\* The *.dcm files an Orthanc folder may hold.  path is the rank of the full
\* path in sorted order; sop = NoUid is a file without SOPInstanceUID.
UploadCatalogue ==
  { [path |-> 1, sop |-> 1, series |-> 1],
    [path |-> 2, sop |-> 2, series |-> 2],
    [path |-> 3, sop |-> NoUid, series |-> NoUid] }

FileSets == {S \in SUBSET UploadCatalogue : Cardinality(S) <= MaxUploadFiles}

\* sorted(files): ascending by full path
RECURSIVE sorted(_)
sorted(S) ==
  IF S = {} THEN <<>>
  ELSE LET m == CHOOSE f \in S : \A g \in S : f.path <= g.path
       IN <<m>> \o sorted(S \ {m})

\* What the PACS answers to /tools/find when the request succeeds.
SopQuery(store, sop) == \E i \in store : i.sop = sop
SeriesQuery(store, series) == \E i \in store : i.series = series

HttpResp == {"ok", "401", "404", "err"}

\* The network during one existence query: whether a token can be had, and
\* the response finally examined for the SOP and for the Series request
\* ("err" stands for a 5xx status or a transport exception).
NetEnv == [tok : BOOLEAN, sopResp : HttpResp, seriesResp : HttpResp]

\* an existence query that asks for the SOPInstanceUID only
ExistsBySopOnly(sop, series, store, net) ==
  IF sop = NoUid THEN "neg"
  ELSE IF ~net.tok THEN "raise"
  ELSE IF net.sopResp = "ok" /\ SopQuery(store, sop) THEN "pos" ELSE "neg"

\* _instance_exists_by_uid: "pos" (True), "neg" (False) or "raise" (the
\* token fetch before the try block failed).
_instance_exists_by_uid(sop, series, store, net) ==
  IF sop = NoUid THEN "neg"
  ELSE IF ~net.tok THEN "raise"
  ELSE IF net.sopResp = "404" THEN "neg"
  ELSE IF net.sopResp # "ok" THEN "neg"
  ELSE IF ~SopQuery(store, sop) THEN "neg"
  ELSE IF net.seriesResp # "ok" THEN "neg"
  ELSE IF SeriesQuery(store, series) THEN "pos" ELSE "neg"

\* every outcome the existence query can have against the store
PossibleExists(sop, series, store) ==
  {_instance_exists_by_uid(sop, series, store, net) : net \in NetEnv}

\* a confirmation that polls once
ConfirmByFirstPoll(polls) ==
  IF polls = <<>> \/ Head(polls) = "neg" THEN "unconfirmed"
  ELSE IF Head(polls) = "pos" THEN "confirmed" ELSE "raise"

\* _confirm_instance_uploaded: up to three polls, the first positive one
\* confirms; a raising poll propagates.
RECURSIVE _confirm_instance_uploaded(_)
_confirm_instance_uploaded(polls) ==
  IF polls = <<>> THEN "unconfirmed"
  ELSE IF Head(polls) = "pos" THEN "confirmed"
  ELSE IF Head(polls) = "raise" THEN "raise"
  ELSE _confirm_instance_uploaded(Tail(polls))

ConfirmAttempts == 3

\* the polls that are made, given what each poll of the loop would answer:
\* the loop ends with the first answer that is not False
RECURSIVE Made(_)
Made(polls) ==
  IF polls = <<>> THEN <<>>
  ELSE IF Head(polls) = "neg" THEN <<"neg">> \o Made(Tail(polls))
  ELSE <<Head(polls)>>

\* _cleanup_upload_artifacts with the temp/ removal left out
CleanupKeepsTemp(fs) ==
  [fs EXCEPT !.lock = FALSE, !.progress = "absent"]

\* _cleanup_upload_artifacts: remove .pacs_uploading, .pacs_progress, temp/
_cleanup_upload_artifacts(fs) ==
  [lock |-> FALSE, progress |-> "absent", temp |-> FALSE]

-----------------------------------------------------------------------------
(* upload_folder_async, one step per statement that touches shared state.   *)

IdleCaller == [pc |-> "idle", path |-> <<>>, recovered |-> FALSE]

\* polled: the answers to the polls of the last confirmation, until the
\* loop goes on;
\* labels: the labels the caller passed; wrote100: "skipped", "written" or
\* "failed"; study: "unread", "none" or "uid"; labelled: the calls of
\* add_label, in order, with what each returned
NewRun(path, recovered, labels) ==
  [ dir |-> RealDir(path), key |-> _folder_key(path), pc |-> "begin",
    files |-> <<>>, idx |-> 0, sop |-> NoUid, series |-> NoUid, cur |-> "none",
    positive |-> 0, invoked |-> 0, failures |-> <<>>,
    recovered |-> recovered, allKnown |-> FALSE,
    labels |-> labels, wrote100 |-> "skipped", study |-> "unread", labelled |-> <<>>,
    polled |-> <<>> ]

\* the labels a caller of the upload model passes for a folder: the case
\* staged in folder A has two, the one in folder B has none
CallLabels(path) ==
  IF RealDir(path) = RealDir(PathA) THEN <<"CT", "PDF">> ELSE <<>>

InFlight == {c \in DOMAIN callers : callers[c].pc # "idle"}

\* upload_folder_async is entered (the folder exists: it was just created
\* by the stager).
Call(c, p) ==
  /\ callers[c].pc = "idle"
  /\ Len(runs) + Cardinality(InFlight) < MaxRuns
  /\ callers' = [callers EXCEPT ![c] = [pc |-> "check", path |-> p, recovered |-> FALSE]]
  /\ UNCHANGED <<dayVars, thrVars, reqVars, drvVars, scanVars, folderFiles, orthanc, ACTIVE_UPLOAD_FOLDERS, pacs, runs>>

\* a membership test that never finds the key
ActiveNever(folder_key) == FALSE

\* _is_upload_active_locally: the membership test under the lock
_is_upload_active_locally(folder_key) == folder_key \in ACTIVE_UPLOAD_FOLDERS

\* if self._is_upload_active_locally(folder_key): return in-progress
CallerCheckActive(c) ==
  /\ callers[c].pc = "check"
  /\ callers' = [callers EXCEPT ![c] =
       IF _is_upload_active_locally(_folder_key(callers[c].path))
       THEN IdleCaller ELSE [@ EXCEPT !.pc = "probe"]]
  /\ UNCHANGED <<dayVars, thrVars, reqVars, drvVars, scanVars, folderFiles, orthanc, ACTIVE_UPLOAD_FOLDERS, pacs, runs>>

\* if lock_path.exists()
CallerProbe(c) ==
  /\ callers[c].pc = "probe"
  /\ callers' = [callers EXCEPT ![c].pc =
       IF orthanc[RealDir(callers[c].path)].lock THEN "recover" ELSE "wlock"]
  /\ UNCHANGED <<dayVars, thrVars, reqVars, drvVars, scanVars, folderFiles, orthanc, ACTIVE_UPLOAD_FOLDERS, pacs, runs>>

\* the interrupted branch: log the percent, _cleanup_upload_artifacts
CallerRecover(c) ==
  /\ callers[c].pc = "recover"
  /\ orthanc' = [orthanc EXCEPT ![RealDir(callers[c].path)] = _cleanup_upload_artifacts(@)]
  /\ callers' = [callers EXCEPT ![c].pc = "wlock", ![c].recovered = TRUE]
  /\ UNCHANGED <<dayVars, thrVars, reqVars, drvVars, scanVars, folderFiles, ACTIVE_UPLOAD_FOLDERS, pacs, runs>>

\* lock_path.write_text(timestamp)
CallerWriteLock(c) ==
  /\ callers[c].pc = "wlock"
  /\ orthanc' = [orthanc EXCEPT ![RealDir(callers[c].path)].lock = TRUE]
  /\ callers' = [callers EXCEPT ![c].pc = "wprog"]
  /\ UNCHANGED <<dayVars, thrVars, reqVars, drvVars, scanVars, folderFiles, ACTIVE_UPLOAD_FOLDERS, pacs, runs>>

\* progress_path.write_text("0")
CallerWriteProgress(c) ==
  /\ callers[c].pc = "wprog"
  /\ orthanc' = [orthanc EXCEPT ![RealDir(callers[c].path)].progress = "0"]
  /\ callers' = [callers EXCEPT ![c].pc = "mark"]
  /\ UNCHANGED <<dayVars, thrVars, reqVars, drvVars, scanVars, folderFiles, ACTIVE_UPLOAD_FOLDERS, pacs, runs>>

\* _mark_upload_active
CallerMark(c) ==
  /\ callers[c].pc = "mark"
  /\ ACTIVE_UPLOAD_FOLDERS' = ACTIVE_UPLOAD_FOLDERS \cup {_folder_key(callers[c].path)}
  /\ callers' = [callers EXCEPT ![c].pc = "spawn"]
  /\ UNCHANGED <<dayVars, thrVars, reqVars, drvVars, scanVars, folderFiles, orthanc, pacs, runs>>

\* worker.start(): the worker thread exists from here on; when the thread
\* cannot be started the RuntimeError leaves upload_folder_async.
CallerSpawn(c) ==
  /\ callers[c].pc = "spawn"
  /\ \E started \in BOOLEAN :
       runs' = IF started
               THEN Append(runs, NewRun(callers[c].path, callers[c].recovered,
                                        CallLabels(callers[c].path)))
               ELSE runs
  /\ callers' = [callers EXCEPT ![c] = IdleCaller]
  /\ UNCHANGED <<dayVars, thrVars, reqVars, drvVars, scanVars, folderFiles, orthanc, ACTIVE_UPLOAD_FOLDERS, pacs>>

-----------------------------------------------------------------------------
(* _upload_folder_worker.                                                   *)

SetRun(i, r) == runs' = [runs EXCEPT ![i] = r]

\* a failure that leaves no entry
NoEntry(r, error) == r

\* failures.append({"path": ..., "error": ...}); error is either
\* "upload-not-confirmed" or the text of an exception
Fail(r, error) ==
  [r EXCEPT !.failures = Append(@, [path |-> r.files[r.idx].path, error |-> error])]

\* a loop that leaves out every other file
SkipAhead(r) ==
  IF r.idx + 1 < Len(r.files)
  THEN [r EXCEPT !.idx = @ + 2, !.pc = "check", !.sop = NoUid, !.series = NoUid, !.cur = "none"]
  ELSE [r EXCEPT !.pc = "finish", !.sop = NoUid, !.series = NoUid, !.cur = "none"]

\* the for loop moves to the next sorted file, or ends
Advance(r) ==
  IF r.idx < Len(r.files)
  THEN [r EXCEPT !.idx = @ + 1, !.pc = "check", !.sop = NoUid, !.series = NoUid, !.cur = "none"]
  ELSE [r EXCEPT !.pc = "finish", !.sop = NoUid, !.series = NoUid, !.cur = "none"]

\* the skip test with the existence answer ignored: never skips
SkipNever(sop, outcome) == FALSE

\* if sop_instance_uid and self._instance_exists_by_uid(...): continue
SkipFile(sop, outcome) == sop # NoUid /\ outcome = "pos"

\* temp/ is emptied and recreated, the *.dcm files outside temp/ are listed;
\* an error while listing leaves the try block; no file: return.
WorkerBegin(i) ==
  /\ runs[i].pc = "begin"
  /\ \E listed \in BOOLEAN :
       LET r == runs[i]
           fs == sorted(folderFiles[r.dir])
           known == \A f \in folderFiles[r.dir] : f.sop # NoUid /\ SopQuery(pacs, f.sop)
       IN SetRun(i, IF listed /\ fs # <<>>
                    THEN [r EXCEPT !.files = fs, !.idx = 1, !.pc = "check", !.allKnown = known]
                    ELSE [r EXCEPT !.pc = "cleanup", !.allKnown = known])
  /\ orthanc' = [orthanc EXCEPT ![runs[i].dir].temp = TRUE]
  /\ UNCHANGED <<dayVars, thrVars, reqVars, drvVars, scanVars, folderFiles, ACTIVE_UPLOAD_FOLDERS, pacs, callers>>

\* the two UIDs are read from the header (a failed read gives None), then
\* the existence check decides: skip, upload, or a failure entry.
WorkerCheck(i) ==
  /\ runs[i].pc = "check"
  /\ \E sopRead \in BOOLEAN, seriesRead \in BOOLEAN :
       LET r == runs[i]
           f == r.files[r.idx]
           sop == IF sopRead THEN f.sop ELSE NoUid
           series == IF seriesRead THEN f.series ELSE NoUid
       IN \E o \in (IF sop = NoUid THEN {"none"} ELSE PossibleExists(sop, series, pacs)) :
            LET r1 == [r EXCEPT !.sop = sop, !.series = series, !.cur = o,
                                !.polled = <<>>,
                                !.positive = IF o = "pos" THEN @ + 1 ELSE @]
            IN SetRun(i, IF o = "raise" THEN Advance(Fail(r1, "exception"))
                         ELSE IF SkipFile(sop, o) THEN Advance(r1)
                         ELSE [r1 EXCEPT !.pc = "upload"])
  /\ UNCHANGED <<dayVars, thrVars, reqVars, drvVars, scanVars, folderFiles, orthanc, ACTIVE_UPLOAD_FOLDERS, pacs, callers>>

\* shutil.copy2 into temp/, then upload_file with its progress callback.
\* The copy fails when temp/ is gone; a failed upload leaves the percent
\* last written.
WorkerUpload(i) ==
  /\ runs[i].pc = "upload"
  /\ \E copyOk \in BOOLEAN, up \in {"ok", "raise"}, part \in {"same", "37"} :
       LET r == runs[i]
           f == r.files[r.idx]
           copied == orthanc[r.dir].temp /\ copyOk
           r1 == [r EXCEPT !.invoked = @ + 1]
       IN /\ SetRun(i, IF ~copied THEN Advance(Fail(r, "exception"))
                       ELSE IF up = "raise" THEN Advance(Fail(r1, "exception"))
                       ELSE IF r.sop # NoUid THEN [r1 EXCEPT !.pc = "confirm"]
                       ELSE Advance(r1))
          /\ pacs' = IF copied /\ up = "ok" /\ f.sop # NoUid
                     THEN pacs \cup {[sop |-> f.sop, series |-> f.series]}
                     ELSE pacs
          /\ orthanc' = IF ~copied \/ (up = "raise" /\ part = "same") THEN orthanc
                        ELSE [orthanc EXCEPT ![r.dir].progress =
                                IF up = "ok" THEN "100" ELSE part]
  /\ UNCHANGED <<dayVars, thrVars, reqVars, drvVars, scanVars, folderFiles, ACTIVE_UPLOAD_FOLDERS, callers>>

\* _confirm_instance_uploaded after a successful upload
WorkerConfirm(i) ==
  /\ runs[i].pc = "confirm"
  /\ \E polls \in [1..ConfirmAttempts -> PossibleExists(runs[i].sop, runs[i].series, pacs)] :
       LET r == runs[i]
           c == _confirm_instance_uploaded(polls)
           r1 == [r EXCEPT !.polled = Made(polls)]
       IN SetRun(i, IF c = "confirmed" THEN Advance(r1)
                    ELSE IF c = "raise" THEN Advance(Fail(r1, "exception"))
                    ELSE Advance(Fail(r1, "upload-not-confirmed")))
  /\ UNCHANGED <<dayVars, thrVars, reqVars, drvVars, scanVars, folderFiles, orthanc, ACTIVE_UPLOAD_FOLDERS, pacs, callers>>

\* a write of .pacs_progress that writes nothing
WriteNothing(fs, written) == fs

\* progress_path.write_text("100"), an exception of which is passed over
Write100(fs, written) ==
  IF written THEN [fs EXCEPT !.progress = "100"] ELSE fs

\* after the loop: failures are logged, or .pacs_progress is set to 100
WorkerFinish(i) ==
  /\ runs[i].pc = "finish"
  /\ \E written \in BOOLEAN :
       IF runs[i].failures = <<>>
       THEN /\ orthanc' = [orthanc EXCEPT ![runs[i].dir] = Write100(@, written)]
            /\ SetRun(i, [runs[i] EXCEPT !.pc = "label", !.polled = <<>>,
                             !.wrote100 = IF written THEN "written" ELSE "failed"])
       ELSE /\ written
            /\ orthanc' = orthanc
            /\ SetRun(i, [runs[i] EXCEPT !.pc = "label", !.polled = <<>>])
  /\ UNCHANGED <<dayVars, thrVars, reqVars, drvVars, scanVars, folderFiles, ACTIVE_UPLOAD_FOLDERS, pacs, callers>>

\* labels are applied whatever the failure list holds
LabelAlways(labels, failures) == labels # <<>>

\* if labels and not failures:
ShouldLabel(labels, failures) == labels # <<>> /\ failures = <<>>

\* what add_label may return for each of the labels (it raises nothing:
\* its body is inside try/except Exception)
LabelResults(labels) == [1..Len(labels) -> BOOLEAN]

\* The labels: the StudyInstanceUID is read from the first *.dcm file that
\* rglob yields (None when the read fails or the file has none); with a
\* study UID add_label is called for every label in turn.
WorkerLabels(i) ==
  /\ runs[i].pc = "label"
  /\ LET r == runs[i]
     IN IF ShouldLabel(r.labels, r.failures)
        THEN \E study \in {"none", "uid"}, res \in LabelResults(r.labels) :
               SetRun(i, [r EXCEPT !.pc = "cleanup", !.study = study,
                            !.labelled = IF study = "uid"
                                         THEN [k \in 1..Len(r.labels) |->
                                                 [label |-> r.labels[k], ok |-> res[k]]]
                                         ELSE <<>>])
        ELSE SetRun(i, [r EXCEPT !.pc = "cleanup"])
  /\ UNCHANGED <<dayVars, thrVars, reqVars, drvVars, scanVars, folderFiles, orthanc, ACTIVE_UPLOAD_FOLDERS, pacs, callers>>

\* finally: self._cleanup_upload_artifacts(lock_path, progress_path, temp_folder)
WorkerCleanup(i) ==
  /\ runs[i].pc = "cleanup"
  /\ orthanc' = [orthanc EXCEPT ![runs[i].dir] = _cleanup_upload_artifacts(@)]
  /\ SetRun(i, [runs[i] EXCEPT !.pc = "release"])
  /\ UNCHANGED <<dayVars, thrVars, reqVars, drvVars, scanVars, folderFiles, ACTIVE_UPLOAD_FOLDERS, pacs, callers>>

\* What is kept of a run once its thread has ended: the folder, how the run
\* began, whether the existence check found every file listed, whether
\* upload_file was invoked, whether a failure was recorded, and whether the
\* folder held no sentinel and no temp/ at the moment the thread ended.
Ended(r, clean) ==
  [ dir |-> r.dir, key |-> r.key, pc |-> "done",
    recovered |-> r.recovered, allKnown |-> r.allKnown,
    listed |-> r.files # <<>>,
    allPositive |-> r.positive = Len(r.files),
    invoked |-> r.invoked > 0,
    failed |-> r.failures # <<>>,
    endClean |-> clean ]

\* finally: self._mark_upload_inactive(folder_key); the thread ends.
WorkerRelease(i) ==
  /\ runs[i].pc = "release"
  /\ ACTIVE_UPLOAD_FOLDERS' = ACTIVE_UPLOAD_FOLDERS \ {runs[i].key}
  /\ SetRun(i, Ended(runs[i],
         orthanc[runs[i].dir] = [lock |-> FALSE, progress |-> "absent", temp |-> FALSE]))
  /\ UNCHANGED <<dayVars, thrVars, reqVars, drvVars, scanVars, folderFiles, orthanc, pacs, callers>>

-----------------------------------------------------------------------------
(* The day root: case folders and the files in them.                        *)

\* files in one case folder
MaxCaseFiles == 2
\* scans (find_cases / find_yesterday_cases calls) in one behaviour
MaxScans == 2
\* things that go wrong in one behaviour
MaxFaults == 1

\* A folder name is the sequence of its characters.
NameJoLi == <<"J", "o", " ", "L", "i">>
NameAnOh == <<"A", "n", " ", "O", "h">>
NameNewFolder == <<"N", "e", "w", " ", "F", "o", "l", "d", "e", "r">>
NameCBCT == <<"C", "B", "C", "T">>
NameScan == <<"s", "c", "a", "n">>

\* str.lower() on the characters that occur
lowerChar(ch) ==
  CASE ch = "A" -> "a" [] ch = "B" -> "b" [] ch = "C" -> "c"
    [] ch = "F" -> "f" [] ch = "J" -> "j" [] ch = "L" -> "l"
    [] ch = "N" -> "n" [] ch = "O" -> "o" [] ch = "T" -> "t"
    [] OTHER -> ch

lower(s) == [i \in 1..Len(s) |-> lowerChar(s[i])]

\* str.strip(): drop the blanks at both ends
RECURSIVE strip(_)
strip(s) ==
  IF s = <<>> THEN s
  ELSE IF Head(s) = " " THEN strip(Tail(s))
  ELSE IF s[Len(s)] = " " THEN strip(SubSeq(s, 1, Len(s) - 1))
  ELSE s

HasSpace(s) == \E i \in 1..Len(s) : s[i] = " "

EXCLUDED_NAMES ==
  { <<"c", "b", "c", "t">>, <<"n", "e", "w", " ", "f", "o", "l", "d", "e", "r">> }

\* the gate with the emptiness test left out
GateByNameOnly(case) ==
  LET folder_name == strip(case.name)
  IN ~(lower(folder_name) \in EXCLUDED_NAMES \/ ~HasSpace(folder_name))

\* the eligibility gate at the head of the loop over the day root
PassesGate(case) ==
  LET folder_name == strip(case.name)
      has_contents == case.files # <<>>
  IN /\ ~(lower(folder_name) \in EXCLUDED_NAMES \/ ~HasSpace(folder_name))
     /\ has_contents

\* The files a case folder may hold.  id names the file (file names are
\* unique in a case); ext is the lower-cased suffix; loc is the folder the
\* file lies in: the case root, "OnDemand 3D" or "Planmeca Romexis"; magic is
\* what is_dicom answers ("raise": the file cannot be opened); read is what
\* dcmread does ("invalid": InvalidDicomError, "error": another exception);
\* sop, mssop and series are SOPInstanceUID, MediaStorageSOPInstanceUID and
\* SeriesInstanceUID; nf is NumberOfFrames ("bad": not an integer); mod is
\* Modality; rom tells whether ImplementationVersionName contains ROMEXIS.
Attachment(id, ext) ==
  [ id |-> id, ext |-> ext, loc |-> "root", magic |-> "no", read |-> "invalid",
    sop |-> NoUid, mssop |-> NoUid, series |-> NoUid, nf |-> "absent",
    mod |-> "none", rom |-> FALSE ]

Dicom(id, ext, loc, sop, series, nf, mod, rom) ==
  [ id |-> id, ext |-> ext, loc |-> loc, magic |-> "yes", read |-> "ok",
    sop |-> sop, mssop |-> sop, series |-> series, nf |-> nf,
    mod |-> mod, rom |-> rom ]

ReportPdf == Attachment(1, "pdf")
PhotoJpg == Attachment(2, "jpg")
\* a multi-frame CT volume exported by OnDemand 3D
VolumeDcm == Dicom(3, "dcm", "ondemand", 1, 1, "many", "CT", FALSE)
\* an OnDemand 3D project file
ProjectDcm == Dicom(4, "dcm", "ondemand", 2, 1, "one", "CT", FALSE)
\* a panoramic image
PanoDcm == Dicom(5, "dcm", "root", 3, 2, "absent", "PX", FALSE)
\* one slice of a CT series stored file by file
SliceDcm == Dicom(6, "dcm", "root", 4, 3, "absent", "CT", FALSE)
\* a second copy of the panoramic image under another name
PanoCopyDcm == Dicom(7, "dcm", "root", 3, 2, "absent", "PX", FALSE)
\* a DICOM file without Modality and without NumberOfFrames
NoModalityDcm == Dicom(8, "dcm", "root", 5, 4, "absent", "none", FALSE)
\* a DICOM file whose name ends in .pdf
DicomNamedPdf == Dicom(9, "pdf", "root", 6, 5, "absent", "PX", FALSE)
\* a multi-frame CT volume written by Romexis into its own folder
RomexisDcm == Dicom(10, "dcm", "romexis", 7, 6, "many", "CT", TRUE)

\* item.name: the files of one folder carry different names; the volume in
\* the OnDemand 3D folder and the slice in the case root are both called
\* "scan.dcm"
name(id) == IF id = SliceDcm.id THEN VolumeDcm.id ELSE id

\* item.stat().st_size: no two files of the catalogue have the same size
st_size(id) == id

CaseCatalogue ==
  { ReportPdf, PhotoJpg, VolumeDcm, ProjectDcm, PanoDcm, SliceDcm,
    PanoCopyDcm, NoModalityDcm, DicomNamedPdf, RomexisDcm }

\* the listings of a case folder: up to MaxCaseFiles different files
Listings ==
  UNION { {s \in [1..n -> CaseCatalogue] : \A i, j \in 1..n : i # j => s[i] # s[j]} :
          n \in 0..MaxCaseFiles }

Ids(fs) == {fs[i].id : i \in 1..Len(fs)}

In(files, loc) == SelectSeq(files, LAMBDA f : f.loc = loc)

FirstAt(files, loc) ==
  IF \E i \in 1..Len(files) : files[i].loc = loc
  THEN CHOOSE i \in 1..Len(files) : files[i].loc = loc /\ \A j \in 1..(i - 1) : files[j].loc # loc
  ELSE Len(files) + 1

\* The order in which a stack walk meets the files: the case root is listed
\* first; the sub-folders the walk descends into follow, one after the other
\* (the listing fixes which of the two is popped first).
Walk(files, descends) ==
  LET subs == IF FirstAt(files, "ondemand") <= FirstAt(files, "romexis")
              THEN <<"ondemand", "romexis">> ELSE <<"romexis", "ondemand">>
      sub(k) == IF subs[k] \in descends THEN In(files, subs[k]) ELSE <<>>
  IN In(files, "root") \o sub(1) \o sub(2)

IGNORED_SUBFOLDERS == {"romexis", "ondemand"}
PDF_EXTS == {"pdf"}
IMAGE_EXTS == {"jpg", "jpeg", "png", "tif", "tiff"}

\* The attachment walk: every file outside the ignored sub-folders is taken
\* by its extension alone.
AttachmentWalk(files) ==
  LET w == Walk(files, {"ondemand", "romexis"} \ IGNORED_SUBFOLDERS)
  IN [ pdf_files |-> SelectSeq(w, LAMBDA f : f.ext \in PDF_EXTS),
       image_files |-> SelectSeq(w, LAMBDA f : f.ext \in IMAGE_EXTS) ]

-----------------------------------------------------------------------------
(* The DICOM walk of a case.                                                *)

\* str.upper() on the modalities that occur
upper(m) == IF m = "ct" THEN "CT" ELSE m

NoStudyInfo == [set |-> FALSE, sop_uid |-> NoUid]

\* _extract_study_info: sop_uid is file_meta.MediaStorageSOPInstanceUID
_extract_study_info(f) == [set |-> TRUE, sop_uid |-> f.mssop]

\* The locals of the walk.  multi is multi_series in insertion order: a
\* sequence of [key, files]; visited and mirrored are the ids of the files
\* the walk reached, and of those it found or copied in Dicoms/; dicoms is
\* what Dicoms/ holds (a file by the id of the source it was copied from) and
\* copied the files shutil.copy2 wrote there; aborted: the outer except
\* clause ended the walk; raised: an exception left the function.
WalkStart ==
  [ single |-> <<>>, project |-> <<>>, twoD |-> <<>>, multi |-> <<>>,
    sop_uids |-> {}, study_info |-> NoStudyInfo, romexis |-> FALSE,
    has_single |-> FALSE, has_multiple |-> FALSE, has_project |-> FALSE,
    visited |-> {}, mirrored |-> {}, dicoms |-> {}, copied |-> {},
    aborted |-> FALSE, raised |-> FALSE ]

\* multi_series.setdefault(series_uid, []).append(item)
MultiAppend(multi, key, f) ==
  IF \E i \in 1..Len(multi) : multi[i].key = key
  THEN [i \in 1..Len(multi) |->
          IF multi[i].key = key THEN [multi[i] EXCEPT !.files = Append(@, f)] ELSE multi[i]]
  ELSE Append(multi, [key |-> key, files |-> <<f>>])

\* series_uid, or "unknown-<case>" when the file has none
UnknownSeries == -1
SeriesKey(f) == IF f.series = NoUid THEN UnknownSeries ELSE f.series

\* max(multi_series.values(), key=len): the first of the longest lists
MaxSeries(multi) ==
  IF multi = <<>> THEN <<>>
  ELSE LET i == CHOOSE i \in 1..Len(multi) :
                  /\ \A j \in 1..Len(multi) : Len(multi[j].files) <= Len(multi[i].files)
                  /\ \A j \in 1..(i - 1) : Len(multi[j].files) < Len(multi[i].files)
       IN multi[i].files

\* the de-duplication test with the set of seen UIDs ignored
SeenNever(sop, sop_uids) == FALSE

\* sop_uid in sop_uids
Seen(sop, sop_uids) == sop \in sop_uids

IsCT(f) == f.mod # "none" /\ upper(f.mod) = "CT"
is_from_ondemand(f) == f.loc = "ondemand"

\* dest_path.exists() and dest_path.stat().st_size == item.stat().st_size
SameSize(held, id) ==
  \E g \in held : name(g) = name(id) /\ st_size(g) = st_size(id)

\* shutil.copy2(item, dest_path): the file of that name is replaced
Copy2(held, id) == {g \in held : name(g) # name(id)} \cup {id}

\* the copy into Dicoms/ (skipped when the file is there with the same size)
Mirror(a, f, copyOk) ==
  IF SameSize(a.dicoms, f.id) THEN [a EXCEPT !.mirrored = @ \cup {f.id}]
  ELSE IF copyOk
    THEN [a EXCEPT !.mirrored = @ \cup {f.id}, !.dicoms = Copy2(@, f.id),
                   !.copied = @ \cup {f.id}]
  ELSE a

\* dest_path.exists()
DestExists(held, id) == \E g \in held : name(g) = name(id)

\* the copy into Dicoms/ of _process_single_case (skipped when a file of
\* that name is there, whatever its size)
MirrorIfAbsent(a, f, copyOk) ==
  IF DestExists(a.dicoms, f.id) THEN [a EXCEPT !.mirrored = @ \cup {f.id}]
  ELSE IF copyOk
    THEN [a EXCEPT !.mirrored = @ \cup {f.id}, !.dicoms = Copy2(@, f.id),
                   !.copied = @ \cup {f.id}]
  ELSE a

\* except Exception around the whole walk of find_cases: the counts and the
\* flags are reset, the lists are left as they are
Abort(a) ==
  [a EXCEPT !.aborted = TRUE, !.has_single = FALSE, !.has_multiple = FALSE,
            !.has_project = FALSE, !.romexis = FALSE]

\* find_cases, the body of the loop over the items for one file
ClassifyToday(a, f, copyOk) ==
  LET v == [a EXCEPT !.visited = @ \cup {f.id}]
      r == [v EXCEPT !.romexis = @ \/ f.rom,
                     !.study_info = IF @.set THEN @ ELSE _extract_study_info(f)]
      s == [r EXCEPT !.sop_uids = IF f.sop # NoUid THEN @ \cup {f.sop} ELSE @]
      kept == Mirror(s, f, copyOk)
  IN IF f.magic = "raise" THEN Abort(v)
     ELSE IF f.magic = "no" THEN v
     ELSE IF f.read = "invalid" THEN v
     ELSE IF f.read = "error" THEN Abort(v)
     ELSE IF f.sop # NoUid /\ Seen(f.sop, r.sop_uids) THEN r
     ELSE IF f.nf = "bad" THEN Abort(s)
     ELSE IF f.nf = "many"
       THEN IF IsCT(f) /\ is_from_ondemand(f)
            THEN [kept EXCEPT !.has_single = TRUE, !.single = Append(@, f)]
            ELSE s
     ELSE IF f.nf = "one"
       THEN IF IsCT(f) /\ is_from_ondemand(f)
            THEN [kept EXCEPT !.has_project = TRUE, !.project = Append(@, f)]
            ELSE s
     ELSE IF f.mod = "none" THEN Abort(s)
     ELSE IF upper(f.mod) # "CT" THEN [kept EXCEPT !.twoD = Append(@, f)]
     ELSE [kept EXCEPT !.has_multiple = TRUE, !.multi = MultiAppend(@, SeriesKey(f), f)]

\* _process_single_case, the body of the loop over the items for one file
ClassifyYesterday(a, f, copyOk) ==
  LET v == [a EXCEPT !.visited = @ \cup {f.id}]
      i == [v EXCEPT !.study_info = IF @.set THEN @ ELSE _extract_study_info(f)]
      s == [i EXCEPT !.sop_uids = @ \cup {f.sop}, !.romexis = @ \/ f.rom]
      kept == MirrorIfAbsent(s, f, copyOk)
  IN IF f.magic = "raise" THEN [v EXCEPT !.raised = TRUE]
     ELSE IF f.magic = "no" THEN v
     ELSE IF f.read # "ok" THEN v
     ELSE IF ~(f.sop # NoUid /\ ~Seen(f.sop, i.sop_uids)) THEN i
     ELSE IF f.nf = "bad" THEN s
     ELSE IF f.nf = "many"
       THEN IF IsCT(f) /\ is_from_ondemand(f)
            THEN [kept EXCEPT !.single = Append(@, f)] ELSE kept
     ELSE IF f.nf = "one"
       THEN IF IsCT(f) /\ is_from_ondemand(f)
            THEN [kept EXCEPT !.project = Append(@, f)] ELSE kept
     ELSE IF f.mod # "none" /\ upper(f.mod) # "CT" THEN [kept EXCEPT !.twoD = Append(@, f)]
     ELSE [kept EXCEPT !.multi = MultiAppend(@, SeriesKey(f), f)]

\* the walk: the files in the order met, until an exception ends it
RECURSIVE DicomWalk(_, _, _, _)
DicomWalk(a, files, today, copyOk) ==
  IF files = <<>> \/ a.aborted \/ a.raised THEN a
  ELSE DicomWalk(IF today THEN ClassifyToday(a, Head(files), copyOk)
                 ELSE ClassifyYesterday(a, Head(files), copyOk),
                 Tail(files), today, copyOk)

\* the walk of a case whose Dicoms/ holds the files held
WalkFrom(held) == [WalkStart EXCEPT !.dicoms = held]

\* the folders the DICOM walk descends into: all of them in find_cases,
\* those with 'ondemand' in their name in _process_single_case
Descends(today) == IF today THEN {"ondemand", "romexis"} ELSE {"ondemand"}

-----------------------------------------------------------------------------
(* Staging into Orthanc/ and the upload kick-off.                           *)

\* the settings PacsUploader.__init__ requires
PacsSettings == {"base_url", "token_url", "client_id", "client_secret"}

\* What may go wrong while one case is processed:
\*   mkdir    - a staging directory cannot be created
\*   copy     - the copies into Attachments/ and Dicoms/ fail
\*   emit     - nothing can be written into Orthanc/
\*   fuseRead - the first file of the series cannot be read again
\*   spawn    - worker.start() raises inside upload_folder_async
\*   a setting - that setting is empty in the environment and in service_config
Faults == {"none", "mkdir", "copy", "emit", "fuseRead", "spawn"} \cup PacsSettings

\* a constructor that accepts every configuration
InitAcceptsAll(base_url, token_url, client_id, client_secret) == "built"

\* PacsUploader.__init__: ValueError when a required setting is empty
__init__(base_url, token_url, client_id, client_secret) ==
  IF base_url = "" THEN "ValueError"
  ELSE IF token_url = "" THEN "ValueError"
  ELSE IF client_id = "" THEN "ValueError"
  ELSE IF client_secret = "" THEN "ValueError"
  ELSE "built"

\* os.getenv(...) or getattr(service_config, ..., "") for one setting
Setting(which, fault) == IF fault = which THEN "" ELSE "set"

\* PacsUploader.from_config
from_config(fault) ==
  __init__(Setting("base_url", fault), Setting("token_url", fault),
           Setting("client_id", fault), Setting("client_secret", fault))

NoStaging ==
  [dir |-> FALSE, attachments |-> {}, dicoms |-> {}, out |-> {}, handed |-> FALSE]

\* out_path.exists(); an output is named after its kind and its source
Exists(out, kind, src) == \E o \in out : o.kind = kind /\ o.src = src

\* the n-th value of generate_uid(): different from every UID in the files
generate_uid(n) == 100 + n

\* "<stem> DCM .dcm": the source DICOM is copied (or saved again), its
\* SOPInstanceUID stays
RECURSIVE EmitCopies(_, _, _)
EmitCopies(out, files, ok) ==
  IF files = <<>> THEN out
  ELSE LET f == Head(files)
       IN EmitCopies(IF Exists(out, "DCM", f.id) \/ ~ok THEN out
                     ELSE out \cup {[kind |-> "DCM", src |-> f.id, sop |-> f.sop]},
                     Tail(files), ok)

\* the SOPInstanceUID _create_pdf_dicom and _create_image_dicom give:
\* study_info.get("sop_uid") or generate_uid()
DocSop(study_info, n) ==
  IF study_info.sop_uid # NoUid THEN study_info.sop_uid ELSE generate_uid(n)

\* "<stem> PDF.dcm" / "<stem> IMG.dcm": one new instance per attachment not
\* yet there; the label is appended after each instance created
RECURSIVE EmitDocs(_, _, _, _, _, _)
EmitDocs(e, files, kind, label, study_info, ok) ==
  IF files = <<>> THEN e
  ELSE LET f == Head(files)
           made == [ out |-> e.out \cup {[kind |-> kind, src |-> f.id,
                                          sop |-> DocSop(study_info, e.uid)]},
                     labels |-> Append(e.labels, label),
                     uid |-> IF study_info.sop_uid # NoUid THEN e.uid ELSE e.uid + 1 ]
       IN EmitDocs(IF Exists(e.out, kind, f.id) \/ ~ok THEN e ELSE made,
                   Tail(files), kind, label, study_info, ok)

\* _convert_multi_file_to_multiframe: "<case> DCM.dcm" carries the
\* SOPInstanceUID of the first dataset (a new one when it has none)
Fused(files, n) ==
  [ kind |-> "FUSED", src |-> 0,
    sop |-> IF Head(files).sop # NoUid THEN Head(files).sop ELSE generate_uid(n) ]

\* _upload_pacs_folder
Kickoff(fault) ==
  IF from_config(fault) = "ValueError" THEN "unconfigured"
  ELSE IF fault = "spawn" THEN "raised"
  ELSE "handed"

\* find_cases from "getting counts" to the upload kick-off
StageToday(att, w, out0, uid0, fault) ==
  LET multi_dicom_files == MaxSeries(w.multi)
      ok == fault # "emit"
      fuses == ~w.has_single /\ ~w.romexis /\ multi_dicom_files # <<>>
      isCT == upper(Head(multi_dicom_files).mod) = "CT"
      l1 == IF w.has_single \/ fuses THEN <<"3D-DICOM">> ELSE <<>>
      o1 == IF w.has_single THEN EmitCopies(out0, w.single, ok)
            ELSE IF fuses /\ isCT /\ ok THEN out0 \cup {Fused(multi_dicom_files, uid0)}
            ELSE out0
      u1 == IF fuses /\ isCT /\ ok /\ Head(multi_dicom_files).sop = NoUid
            THEN uid0 + 1 ELSE uid0
      l2 == IF w.has_project THEN Append(l1, "OD3D")
            ELSE IF w.twoD # <<>> THEN Append(l1, "2D-DICOM")
            ELSE l1
      o2 == IF w.has_project THEN EmitCopies(o1, w.project, ok)
            ELSE IF w.twoD # <<>> THEN EmitCopies(o1, w.twoD, ok)
            ELSE o1
      e3 == EmitDocs([out |-> o2, labels |-> l2, uid |-> u1],
                     att.pdf_files, "PDF", "PDF", w.study_info, ok)
      e4 == EmitDocs(e3, att.image_files, "IMG", "Image", w.study_info, ok)
  IN IF fuses /\ fault = "fuseRead"
       THEN [outcome |-> "raised", out |-> out0, labels |-> l1, uid |-> uid0]
     ELSE IF fuses /\ isCT /\ Exists(out0, "FUSED", 0)
       THEN [outcome |-> "continued", out |-> out0, labels |-> l1, uid |-> uid0]
     ELSE [outcome |-> Kickoff(fault), out |-> e4.out, labels |-> e4.labels, uid |-> e4.uid]

\* _process_single_case from "Stage DICOMs to Orthanc folder" to the end
StageYesterday(att, w, out0, uid0, fault) ==
  LET ok == fault # "emit"
      multi_dicom_files == MaxSeries(w.multi)
      fuses == w.single = <<>> /\ w.multi # <<>> /\ ~Exists(out0, "FUSED", 0)
               /\ ok /\ fault # "fuseRead"
      l1 == IF w.single # <<>> \/ w.multi # <<>> THEN <<"3D-DICOM">> ELSE <<>>
      o1 == IF w.single # <<>> THEN EmitCopies(out0, w.single, ok)
            ELSE IF fuses THEN out0 \cup {Fused(multi_dicom_files, uid0)}
            ELSE out0
      u1 == IF fuses /\ Head(multi_dicom_files).sop = NoUid THEN uid0 + 1 ELSE uid0
      l2 == IF w.project # <<>> THEN Append(l1, "OD3D") ELSE l1
      o2 == EmitCopies(o1, w.project, ok)
      l3 == IF w.twoD # <<>> THEN Append(l2, "2D-DICOM") ELSE l2
      o3 == EmitCopies(o2, w.twoD, ok)
      e4 == EmitDocs([out |-> o3, labels |-> l3, uid |-> u1],
                     att.pdf_files, "PDF", "PDF", w.study_info, ok)
      e5 == EmitDocs(e4, att.image_files, "IMG", "Image", w.study_info, ok)
  IN [ outcome |-> Kickoff(fault), out |-> e5.out,
       labels |-> Append(e5.labels, "Yesterday-Recovery"), uid |-> e5.uid ]

-----------------------------------------------------------------------------
(* The scan: find_cases and find_yesterday_cases, one step per case.        *)

NoScan ==
  [running |-> FALSE, kind |-> "none", pos |-> 0, n |-> 0, faults |-> 0,
   seen |-> {}, gated |-> {}, raised |-> {}]

NoWalks == [pdf_files |-> <<>>, image_files |-> <<>>]

IdSeq(fs) == [i \in 1..Len(fs) |-> fs[i].id]

NoWrites == [attachments |-> {}, dicoms |-> {}, out |-> {}]

\* What is remembered of the step on one case: the outcome, the labels, the
\* lists and flags of the two walks (a file is remembered by its id), the
\* files written below the staging folder, whether a setting was missing
\* from the PACS configuration during the pass, and the files of Orthanc/
\* the PACS answered True for.
Step(c, kind, outcome, walked, att, w, labels) ==
  [ case |-> c, kind |-> kind, outcome |-> outcome, walked |-> walked,
    labels |-> labels,
    pdf_files |-> IdSeq(att.pdf_files), image_files |-> IdSeq(att.image_files),
    single |-> IdSeq(w.single), project |-> IdSeq(w.project), twoD |-> IdSeq(w.twoD),
    multi |-> [i \in 1..Len(w.multi) |-> IdSeq(w.multi[i].files)],
    has_single |-> w.has_single, has_multiple |-> w.has_multiple,
    has_project |-> w.has_project, romexis |-> w.romexis,
    visited |-> w.visited, mirrored |-> w.mirrored, wrote |-> NoWrites,
    missing |-> FALSE, found |-> {} ]

\* a required setting is empty when the fault is met
Missing(fault) == fault \in PacsSettings

NoStep == Step(0, "none", "none", FALSE, NoWalks, WalkStart, <<>>)

\* the faults met so far
Met(fault) == IF fault = "none" THEN scan.faults ELSE scan.faults + 1

\* the exception leaves the function: the scan is over
Raise(c, fault) ==
  [scan EXCEPT !.running = FALSE, !.raised = @ \cup {c}, !.faults = Met(fault)]

\* the loop moves on to the next directory entry
Proceed(c, fault) ==
  [scan EXCEPT !.pos = @ + 1, !.seen = @ \cup {c}, !.faults = Met(fault)]

\* the faults that may still happen
MayFail == IF scan.faults < MaxFaults THEN Faults ELSE {"none"}

\* the files the attachment walk copies into Attachments/: those not there
\* with the same size
AttachmentCopies(st, att, fault) ==
  IF fault = "copy" THEN {}
  ELSE {id \in Ids(att.pdf_files) \cup Ids(att.image_files) : ~SameSize(st.attachments, id)}

\* the copies into Attachments/
Attached(st, att, fault) == st.attachments \cup AttachmentCopies(st, att, fault)

\* what one pass over a case wrote below its staging folder
Wrote(st, att, w, out, fault) ==
  [ attachments |-> AttachmentCopies(st, att, fault), dicoms |-> w.copied,
    out |-> out \ st.out ]


\* the folder of case c below the day root
CaseFolderItself(c) == [tree |-> "source", case |-> c]

\* case_staging_folder = <staging day folder> / case.name: the folder of
\* case c in the staging tree
case_staging_folder(c) == [tree |-> "staging", case |-> c]

\* The day root after a pass copied files below the folder dest: files
\* written below a case folder would be listed in it from then on.
Landed(dest, wrote) ==
  IF dest.tree = "source"
  THEN [root EXCEPT ![dest.case].files =
          @ \o SelectSeq(@, LAMBDA f : f.id \in wrote.attachments \cup wrote.dicoms)]
  ELSE root

\* orthanc_folder: <staging day folder>/<case.name>/Orthanc
OrthancPath(c) == IF c = 1 THEN PathA ELSE PathB

\* The *.dcm files of Orthanc/ as the uploader lists them.  The paths sort
\* by the stem of the source; a copy keeps the SeriesInstanceUID of its
\* source, every other output is a series of its own.
StagedFiles(out) ==
  { [ path |-> 4 * o.src + (CASE o.kind = "DCM" -> 1 [] o.kind = "IMG" -> 2
                              [] o.kind = "PDF" -> 3 [] OTHER -> 0),
      sop |-> o.sop,
      series |-> IF o.kind = "DCM"
                 THEN (CHOOSE f \in CaseCatalogue : f.id = o.src).series
                 ELSE o.sop ] : o \in out }

\* upload_folder_async from entry to return, run by the scan thread on an
\* existing folder; started: worker.start() did not raise
upload_folder_async(p, started, labels) ==
  LET dir == RealDir(p)
      interrupted == orthanc[dir].lock
      cleaned == IF interrupted THEN _cleanup_upload_artifacts(orthanc[dir]) ELSE orthanc[dir]
  IN IF _is_upload_active_locally(_folder_key(p))
     THEN [orthanc |-> orthanc, active |-> ACTIVE_UPLOAD_FOLDERS, runs |-> runs]
     ELSE [ orthanc |-> [orthanc EXCEPT ![dir] = [cleaned EXCEPT !.lock = TRUE, !.progress = "0"]],
            active |-> ACTIVE_UPLOAD_FOLDERS \cup {_folder_key(p)},
            runs |-> IF started THEN Append(runs, NewRun(p, interrupted, labels)) ELSE runs ]

\* how _upload_pacs_folder ends for case c: worker.start() is not reached
\* when the folder is claimed, so it cannot raise then
Kicked(c, outcome, fault) ==
  IF outcome = "raised" /\ fault = "spawn"
     /\ _is_upload_active_locally(_folder_key(OrthancPath(c)))
  THEN "handed" ELSE outcome

\* what the pass over case c does to the uploader's state: the outputs are
\* in Orthanc/, and upload_folder_async has run when the pass reached it
HandOver(c, out, labels, outcome, fault) ==
  LET called == outcome = "handed" \/ (outcome = "raised" /\ fault = "spawn")
      u == upload_folder_async(OrthancPath(c), fault # "spawn", labels)
  IN /\ folderFiles' = [folderFiles EXCEPT ![RealDir(OrthancPath(c))] = StagedFiles(out)]
     /\ orthanc' = IF called THEN u.orthanc ELSE orthanc
     /\ ACTIVE_UPLOAD_FOLDERS' = IF called THEN u.active ELSE ACTIVE_UPLOAD_FOLDERS
     /\ runs' = IF called THEN u.runs ELSE runs
     /\ UNCHANGED <<pacs, callers>>

\* find_cases / find_yesterday_cases is called
ScanBegin(kind) ==
  /\ ~scan.running
  /\ scan.n < MaxScans
  /\ kind = "today" => scan.kind # "yesterday"
  /\ scan' = [running |-> TRUE, kind |-> kind, pos |-> 1, n |-> scan.n + 1,
              faults |-> scan.faults, seen |-> {}, gated |-> {}, raised |-> {}]
  /\ UNCHANGED <<dayVars, thrVars, reqVars, drvVars, upVars, root, staging, last, uid>>

\* a directory that does not pass the gate: continue
ScanGate ==
  /\ scan.running
  /\ scan.pos <= Len(root)
  /\ ~PassesGate(root[scan.pos])
  /\ scan' = [scan EXCEPT !.pos = @ + 1, !.gated = @ \cup {scan.pos}]
  /\ last' = Step(scan.pos, scan.kind, "gated", FALSE, NoWalks, WalkStart, <<>>)
  /\ UNCHANGED <<dayVars, thrVars, reqVars, drvVars, upVars, root, staging, uid>>

\* find_cases: one pass of the loop body for a case that passed the gate
ScanCaseToday ==
  /\ scan.running
  /\ scan.kind = "today"
  /\ scan.pos <= Len(root)
  /\ PassesGate(root[scan.pos])
  /\ \E walks \in {[copyOk \in BOOLEAN |->
                       DicomWalk(WalkFrom(staging[scan.pos].dicoms),
                                 Walk(root[scan.pos].files, Descends(TRUE)), TRUE, copyOk)]} :
     \E att \in {AttachmentWalk(root[scan.pos].files)} :
     \E fault \in MayFail :
       LET c == scan.pos
           st == staging[c]
           w == walks[fault # "copy"]
       IN \E res \in {StageToday(att, w, st.out, uid, fault)} :
          \E outcome \in {Kicked(c, res.outcome, fault)} :
          IF fault = "mkdir"
          THEN /\ scan' = Raise(c, fault)
               /\ last' = Step(c, "today", "raised", FALSE, NoWalks, WalkStart, <<>>)
               /\ UNCHANGED <<staging, uid, upVars>>
          ELSE /\ staging' = [staging EXCEPT ![c] =
                    [ dir |-> TRUE, attachments |-> Attached(st, att, fault),
                      dicoms |-> w.dicoms, out |-> res.out,
                      handed |-> st.handed \/ outcome = "handed" ]]
               /\ uid' = res.uid
               /\ last' = [Step(c, "today", outcome, TRUE, att, w, res.labels)
                             EXCEPT !.wrote = Wrote(st, att, w, res.out, fault),
                                    !.missing = Missing(fault)]
               /\ scan' = IF outcome = "raised" THEN Raise(c, fault) ELSE Proceed(c, fault)
               /\ HandOver(c, res.out, res.labels, outcome, fault)
  /\ root' = Landed(case_staging_folder(scan.pos), last'.wrote)
  /\ UNCHANGED <<dayVars, thrVars, reqVars, drvVars>>

\* _is_case_staged: Orthanc/ exists and any(orthanc_folder.iterdir()): an
\* output, a sentinel or temp/
_is_case_staged(st, fs) ==
  st.out # {} \/ fs.lock \/ fs.progress # "absent" \/ fs.temp

\* rglob("*.dcm"), the names starting with "." left out: the outputs in the
\* order of their paths
Rglob(out) == sorted(StagedFiles(out))

\* _is_case_uploaded_to_pacs: the uploader can be built and
\* _instance_exists_by_uid answers True for one of the *.dcm files that
\* carry both UIDs; found: the paths of the files the answer is True for
_is_case_uploaded_to_pacs(out, fault, found) ==
  /\ from_config(fault) = "built"
  /\ \E i \in 1..Len(Rglob(out)) :
       /\ Rglob(out)[i].sop # NoUid /\ Rglob(out)[i].series # NoUid
       /\ Rglob(out)[i].path \in found

\* what the PACS may answer during one pass: True for no file, for the
\* first one or for the last one
Founds(out) ==
  {{}} \cup {{Rglob(out)[i].path} : i \in {1, Len(Rglob(out))} \cap 1..Len(Rglob(out))}

\* the faults that can be met between _is_case_uploaded_to_pacs and the
\* return of _upload_pacs_folder
KickoffFaults == {"none", "spawn"} \cup PacsSettings

\* find_yesterday_cases: one pass of the loop body for a case that passed
\* the gate: skip, upload only, or _process_single_case inside try/except
ScanCaseYesterday ==
  /\ scan.running
  /\ scan.kind = "yesterday"
  /\ scan.pos <= Len(root)
  /\ PassesGate(root[scan.pos])
  /\ \E fault \in MayFail :
       LET c == scan.pos
           st == staging[c]
           is_staged == _is_case_staged(st, orthanc[RealDir(OrthancPath(c))])
           kick == Kicked(c, Kickoff(fault), fault)
       IN IF is_staged
          THEN \E found \in Founds(st.out) :
               /\ fault \in KickoffFaults
               /\ IF _is_case_uploaded_to_pacs(st.out, fault, found)
                  THEN /\ scan' = Proceed(c, fault)
                       /\ last' = [Step(c, "yesterday", "uploaded", FALSE, NoWalks, WalkStart, <<>>)
                                     EXCEPT !.missing = Missing(fault), !.found = found]
                       /\ UNCHANGED <<staging, uid, upVars>>
                  ELSE /\ scan' = IF kick = "raised" THEN Raise(c, fault) ELSE Proceed(c, fault)
                       /\ staging' = [staging EXCEPT ![c].handed = @ \/ kick = "handed"]
                       /\ last' = [Step(c, "yesterday", kick, FALSE, NoWalks, WalkStart,
                                         <<"Yesterday-Recovery">>)
                                     EXCEPT !.missing = Missing(fault), !.found = found]
                       /\ UNCHANGED uid
                       /\ HandOver(c, st.out, <<"Yesterday-Recovery">>, kick, fault)
          ELSE IF fault = "mkdir"
          THEN /\ scan' = Proceed(c, fault)
               /\ last' = Step(c, "yesterday", "failed", FALSE, NoWalks, WalkStart, <<>>)
               /\ UNCHANGED <<staging, uid, upVars>>
          ELSE \E att \in {AttachmentWalk(root[c].files)} :
               \E w \in {DicomWalk(WalkFrom(st.dicoms), Walk(root[c].files, Descends(FALSE)),
                                  FALSE, fault # "copy")} :
               \E res \in {StageYesterday(att, w, st.out, uid, fault)} :
               \E outcome \in {IF w.raised THEN "failed" ELSE Kicked(c, res.outcome, fault)} :
               /\ scan' = Proceed(c, fault)
               /\ staging' = [staging EXCEPT ![c] =
                    [ dir |-> TRUE, attachments |-> Attached(st, att, fault),
                      dicoms |-> w.dicoms,
                      out |-> IF w.raised THEN st.out ELSE res.out,
                      handed |-> st.handed \/ outcome = "handed" ]]
               /\ uid' = IF w.raised THEN uid ELSE res.uid
               /\ last' = [Step(c, "yesterday", IF outcome = "raised" THEN "failed" ELSE outcome,
                                 TRUE, att, w, IF w.raised THEN <<>> ELSE res.labels)
                             EXCEPT !.wrote = Wrote(st, att, w, IF w.raised THEN st.out ELSE res.out, fault),
                                    !.missing = Missing(fault)]
               /\ HandOver(c, IF w.raised THEN st.out ELSE res.out, res.labels, outcome, fault)
  /\ root' = Landed(case_staging_folder(scan.pos), last'.wrote)
  /\ UNCHANGED <<dayVars, thrVars, reqVars, drvVars>>

\* the loop over the day root is exhausted: the function returns
ScanEnd ==
  /\ scan.running
  /\ scan.pos > Len(root)
  /\ scan' = [scan EXCEPT !.running = FALSE]
  /\ UNCHANGED <<dayVars, thrVars, reqVars, drvVars, upVars, root, staging, last, uid>>

-----------------------------------------------------------------------------
(* Initial states and specifications of the upload model.                   *)

\* What a folder may hold when the service starts: nothing, or the
\* sentinels (and temp/) a killed process left behind.
InitialFolderStates ==
  { [lock |-> FALSE, progress |-> "absent", temp |-> FALSE],
    [lock |-> TRUE, progress |-> "37", temp |-> TRUE] }

\* Instances the PACS may already store.
InitialStores ==
  { {},
    {[sop |-> 1, series |-> 1], [sop |-> 2, series |-> 2]},
    {[sop |-> 1, series |-> 1]} }

\* main has not been entered.  pc: "off", "loop" (the head of while True),
\* "tick" (inside the try block, past the path planning), "wait"
\* (stop_event.wait) or "returned"; monitor: monitor is not None; ticks: the
\* passes of the loop that entered the try block; at: the scans begun before
\* this pass; failed: the last pass ended in the except clause.
NoDriver == [pc |-> "off", monitor |-> FALSE, ticks |-> 0, at |-> 0, failed |-> FALSE]

\* _TokenState(): no token; valid stands for time.time() < expires_at
NoToken == [access_token |-> 0, expires_at |-> 0]

\* _get_token was not called yet
NoHandOut ==
  [n |-> 0, token |-> 0, at |-> 0, contacted |-> FALSE, cached |-> NoToken,
   grant |-> [at |-> 0, expires_in |-> 0]]

\* no request method is running
NoCall == [fn |-> "none", pc |-> "idle", kind |-> "none", token |-> 0,
           result |-> "none", n |-> 0]

\* the threads that use one PacsUploader
Threads == {1, 2}

\* no thread is inside _get_token.  pc: "out", "fetching" (inside
\* _fetch_token, the POST to token_url under way) or "has" (_get_token
\* returned a token); fetched: the fetches the thread completed
NoThreads == [t \in Threads |-> [pc |-> "out", fetched |-> 0, token |-> 0]]

InitRequestsIdle ==
  /\ _token = NoToken
  /\ issued = 0
  /\ granted = [at |-> 0, expires_in |-> 0]
  /\ now = 0
  /\ handed = NoHandOut
  /\ sent = <<>>
  /\ call = NoCall
  /\ getters = NoThreads

\* None: no environment variable, no remembered mtime
Unset == -1

\* no PacsUploader is built
NoUploader == [built |-> FALSE, max_upload_bps |-> 0, mtime |-> Unset, last_check |-> 0]

\* no upload body is open
NoBody == [open |-> FALSE, n |-> 0, sent |-> 0, start |-> 0, resets |-> 0]

\* read was not called yet
NoChunk == [n |-> 0, sent |-> 0, elapsed |-> 0, cap |-> 0, live |-> 0, raw |-> 0,
            slept |-> FALSE]

\* nothing is uploaded; the cap is set nowhere (0: absent)
InitThrottleIdle ==
  /\ mono = 1
  /\ conf = [env |-> 0, file |-> 0, loaded |-> 0, mtime |-> 0]
  /\ uploader = NoUploader
  /\ body = NoBody
  /\ chunk = NoChunk

\* days the clock reaches
MaxDays == 2

\* case folders in one day root
MaxDayCases == 2

\* find_cases is not running.  pc: "idle", "named" (the staging folder of
\* the day is made, the root folder is not named yet) or "loop" (inside the
\* loop over the day root); staging and root: the days of
\* today_staging_folder and today_folder; pos: the next case; n: the calls
NoFinder == [pc |-> "idle", staging |-> 0, root |-> 0, pos |-> 0, n |-> 0]

\* the first day, no case folder yet
InitDaysIdle ==
  /\ clock = 1
  /\ dayroots = [d \in 1..MaxDays |-> 0]
  /\ finder = NoFinder
  /\ placed = {}

InitDriverIdle ==
  /\ driver = NoDriver
  /\ stop_event = FALSE
  /\ InitRequestsIdle
  /\ InitDaysIdle

\* no scan has run and the day root is empty
InitScanIdle ==
  /\ InitDriverIdle
  /\ InitThrottleIdle
  /\ root = <<>>
  /\ staging = <<>>
  /\ scan = NoScan
  /\ last = NoStep
  /\ uid = 0

\* Folder B is empty and clean; folder A holds one of fileSets.
InitUpload(threads, fileSets, stores) ==
  /\ folderFiles \in {f \in [Dirs -> fileSets] : f[RealDir(PathB)] = {}}
  /\ orthanc \in {o \in [Dirs -> InitialFolderStates] : ~o[RealDir(PathB)].lock}
  /\ ACTIVE_UPLOAD_FOLDERS = {}
  /\ pacs \in stores
  /\ callers = [c \in threads |-> IdleCaller]
  /\ runs = <<>>
  /\ InitScanIdle

NextUpload ==
  \/ \E c \in DOMAIN callers, p \in Paths : Call(c, p)
  \/ \E c \in DOMAIN callers : CallerCheckActive(c)
  \/ \E c \in DOMAIN callers : CallerProbe(c)
  \/ \E c \in DOMAIN callers : CallerRecover(c)
  \/ \E c \in DOMAIN callers : CallerWriteLock(c)
  \/ \E c \in DOMAIN callers : CallerWriteProgress(c)
  \/ \E c \in DOMAIN callers : CallerMark(c)
  \/ \E c \in DOMAIN callers : CallerSpawn(c)
  \/ \E i \in 1..Len(runs) : WorkerBegin(i)
  \/ \E i \in 1..Len(runs) : WorkerCheck(i)
  \/ \E i \in 1..Len(runs) : WorkerUpload(i)
  \/ \E i \in 1..Len(runs) : WorkerConfirm(i)
  \/ \E i \in 1..Len(runs) : WorkerFinish(i)
  \/ \E i \in 1..Len(runs) : WorkerLabels(i)
  \/ \E i \in 1..Len(runs) : WorkerCleanup(i)
  \/ \E i \in 1..Len(runs) : WorkerRelease(i)

vars == <<upVars, scanVars, drvVars, reqVars, thrVars, dayVars>>

\* The service as deployed: the scan driver is the only thread that calls
\* upload_folder_async (CodeIWantToRun.main runs the scans one after another).
Init == InitUpload({"driver"}, FileSets, InitialStores)
Next == NextUpload
Spec == Init /\ [][Next]_vars

\* upload_folder_async called from two threads, on folders of at most
\* MaxRaceFiles files and an empty PACS.
InitRace ==
  InitUpload({"t1", "t2"},
             {S \in SUBSET UploadCatalogue : Cardinality(S) <= MaxRaceFiles}, {{}})
SpecRace == InitRace /\ [][NextUpload]_vars

-----------------------------------------------------------------------------
(* Initial states and specification of the scan model.                      *)

\* no upload is known
InitUploadIdle ==
  /\ folderFiles = [d \in Dirs |-> {}]
  /\ orthanc = [d \in Dirs |-> [lock |-> FALSE, progress |-> "absent", temp |-> FALSE]]
  /\ ACTIVE_UPLOAD_FOLDERS = {}
  /\ pacs = {}
  /\ callers = [c \in {"driver"} |-> IdleCaller]
  /\ runs = <<>>

\* names the gate turns away
OtherNames == {NameNewFolder, NameCBCT, NameScan}

\* a second patient with one report
SecondCase == [name |-> NameAnOh, files |-> <<ReportPdf>>]

\* what the first folder of a day root of two may hold
FirstListings ==
  { <<>>, <<PanoDcm>>, <<SliceDcm>>, <<VolumeDcm, ReportPdf>>, <<NoModalityDcm, PanoDcm>> }

InitScanWith(roots) ==
  /\ InitUploadIdle
  /\ InitDriverIdle
  /\ InitThrottleIdle
  /\ root \in roots
  /\ staging = [c \in 1..2 |-> NoStaging]
  /\ scan = NoScan
  /\ last = NoStep
  /\ uid = 0

\* A day root of two folders, nothing staged yet: the first has any of the
\* names and one of FirstListings, the second is SecondCase.
InitScan ==
  InitScanWith({<<[name |-> nm, files |-> fs], SecondCase>> :
                  nm \in {NameJoLi} \cup OtherNames, fs \in FirstListings})

\* A day root of one patient folder with any listing, nothing staged yet.
InitCase ==
  InitScanWith({<<[name |-> NameJoLi, files |-> fs]>> : fs \in Listings})

NextScan ==
  \/ \E kind \in {"today", "yesterday"} : ScanBegin(kind)
  \/ ScanGate
  \/ ScanCaseToday
  \/ ScanCaseYesterday
  \/ ScanEnd

SpecScan == InitScan /\ [][NextScan]_vars
SpecCase == InitCase /\ [][NextScan]_vars

-----------------------------------------------------------------------------
(* The scan driver: CodeIWantToRun.main run by the service on its worker    *)
(* thread, the stop signal, and the upload workers the scans start.         *)

\* main is entered: FolderMonitor.from_config() gives the monitor or raises
DriverStart ==
  /\ driver.pc = "off"
  /\ \E built \in BOOLEAN : driver' = [driver EXCEPT !.pc = "loop", !.monitor = built]
  /\ UNCHANGED <<dayVars, thrVars, reqVars, upVars, scanVars, stop_event>>

\* an exception raised in the try block leaves main
RaiseLeavesMain(raised) == IF raised THEN "crashed" ELSE "wait"

\* except Exception: whatever the try block raised is logged, and the pass
\* goes on to the wait like one that raised nothing
AfterTry(raised) == "wait"

\* the head of the loop: without a monitor the pass goes straight to the
\* wait; with one, the path planning succeeds or raises into the except
\* clause
DriverEnter ==
  /\ driver.pc = "loop"
  /\ driver.monitor => driver.ticks < MaxScans
  /\ \E planned \in BOOLEAN :
       driver' = IF ~driver.monitor THEN [driver EXCEPT !.pc = "wait"]
                 ELSE IF planned
                   THEN [driver EXCEPT !.pc = "tick", !.ticks = @ + 1, !.at = scan.n]
                 ELSE [driver EXCEPT !.pc = AfterTry(TRUE), !.ticks = @ + 1, !.failed = TRUE]
  /\ UNCHANGED <<dayVars, thrVars, reqVars, upVars, scanVars, stop_event>>

\* monitor.find_cases() is called
DriverFindCases ==
  /\ driver.pc = "tick"
  /\ scan.n = driver.at
  /\ ScanBegin("today")

\* find_cases has returned (the cases are logged) or raised (the except
\* clause logs the failure); the pass goes on to the wait
DriverTickEnd ==
  /\ driver.pc = "tick"
  /\ scan.n = driver.at + 1
  /\ ~scan.running
  /\ driver' = [driver EXCEPT !.pc = AfterTry(scan.raised # {}), !.failed = scan.raised # {}]
  /\ UNCHANGED <<dayVars, thrVars, reqVars, upVars, scanVars, stop_event>>

\* a wait that never sees the event
waitTimesOut(event) == FALSE

\* stop_event.wait(timeout=5): True as soon as the event is set
wait(event) == event

\* if stop_event.wait(timeout=5): return; otherwise the loop goes round
DriverWait ==
  /\ driver.pc = "wait"
  /\ driver' = [driver EXCEPT !.pc = IF wait(stop_event) THEN "returned" ELSE "loop"]
  /\ UNCHANGED <<dayVars, thrVars, reqVars, upVars, scanVars, stop_event>>

\* MyService.SvcStop: self.stop_event.set()
SvcStop ==
  /\ ~stop_event
  /\ stop_event' = TRUE
  /\ UNCHANGED <<dayVars, thrVars, reqVars, upVars, scanVars, driver>>

\* Two day roots, nothing staged yet.  In the first, one folder passes the
\* gate and holds a panoramic image, the other does not pass; in the second
\* both folders pass the gate and hold a Romexis volume each, for which
\* nothing is written into Orthanc/.
DriverRoots ==
  { <<[name |-> NameJoLi, files |-> <<PanoDcm>>], [name |-> NameCBCT, files |-> <<ReportPdf>>]>>,
    <<[name |-> NameJoLi, files |-> <<RomexisDcm>>], [name |-> NameAnOh, files |-> <<RomexisDcm>>]>> }

InitDriver ==
  /\ InitUploadIdle
  /\ InitDriverIdle
  /\ InitThrottleIdle
  /\ root \in DriverRoots
  /\ staging = [c \in 1..2 |-> NoStaging]
  /\ scan = NoScan
  /\ last = NoStep
  /\ uid = 0

NextDriver ==
  \/ DriverStart
  \/ DriverEnter
  \/ DriverFindCases
  \/ ScanGate
  \/ ScanCaseToday
  \/ ScanEnd
  \/ DriverTickEnd
  \/ DriverWait
  \/ SvcStop
  \/ \E i \in 1..Len(runs) : WorkerBegin(i)
  \/ \E i \in 1..Len(runs) : WorkerCheck(i)
  \/ \E i \in 1..Len(runs) : WorkerUpload(i)
  \/ \E i \in 1..Len(runs) : WorkerConfirm(i)
  \/ \E i \in 1..Len(runs) : WorkerFinish(i)
  \/ \E i \in 1..Len(runs) : WorkerLabels(i)
  \/ \E i \in 1..Len(runs) : WorkerCleanup(i)
  \/ \E i \in 1..Len(runs) : WorkerRelease(i)

SpecDriver == InitDriver /\ [][NextDriver]_vars

\* the steps of the driver thread
DriverThread ==
  \/ DriverStart
  \/ DriverEnter
  \/ DriverFindCases
  \/ ScanGate
  \/ ScanCaseToday
  \/ ScanEnd
  \/ DriverTickEnd
  \/ DriverWait

\* The driver thread is scheduled again and again, and the wait of five
\* seconds ends; nothing is assumed about the stop request.
SpecDriverFair == SpecDriver /\ WF_vars(DriverThread)

-----------------------------------------------------------------------------
(* Properties of the upload orchestrator.                                   *)

Live(d) == {i \in 1..Len(runs) : runs[i].dir = d /\ runs[i].pc # "done"}

\* C1: single-flight: whatever the interleaving of upload_folder_async
\* calls (from any thread, with any spelling of the path) and of worker
\* completions, at most one _upload_folder_worker runs for a folder at any
\* instant.
C1_SingleFlight == \A d \in Dirs : Cardinality(Live(d)) <= 1

-----------------------------------------------------------------------------
(* Properties of the scan, the classifier and the stager.                   *)

Range(s) == {s[i] : i \in 1..Len(s)}

\* a directory the eligibility rule excludes, in the words of the rule
Ineligible(case) ==
  \/ ~HasSpace(case.name)
  \/ lower(case.name) \in EXCLUDED_NAMES
  \/ case.files = <<>>

\* C4: eligibility: a directory whose name has no space, or is 'cbct' or
\* 'new folder' in any letter case, or which is empty, never has a staging
\* directory and is never handed to upload_folder_async, by the today scan
\* and by the yesterday pass alike.
C4_Eligibility ==
  \A c \in 1..Len(root) :
    Ineligible(root[c]) => (~staging[c].dir /\ ~staging[c].handed)

\* a yesterday pass has turned away a non-empty directory after a today scan
\* staged and handed another one
C4_Witness ==
  \E c \in 1..Len(root), d \in 1..Len(root) :
    /\ Ineligible(root[c]) /\ root[c].files # <<>>
    /\ scan.kind = "yesterday" /\ c \in scan.gated
    /\ staging[d].dir /\ staging[d].handed

\* C5 as stated: every pass of a today scan over a case that passed the
\* gate ends with the call of upload_folder_async (unless an exception left
\* find_cases or the uploader could not be built), on the first scan and on
\* every later one.
C5_AsStated ==
  (last.kind = "today" /\ last.walked /\ last.outcome \notin {"raised", "unconfigured"})
    => last.outcome = "handed"

\* C6 as stated: when the processing of one case raised during a today
\* scan, every other case of the day root that passes the gate has still
\* been classified and staged by that scan.
C6_AsStated ==
  (~scan.running /\ scan.kind = "today" /\ scan.raised # {})
    => \A c \in 1..Len(root) :
         (PassesGate(root[c]) /\ c \notin scan.raised) => c \in scan.seen

\* the files the DICOM walk of the last step has to visit
Expected ==
  IF last.case \in 1..Len(root)
  THEN Walk(root[last.case].files, Descends(last.kind = "today"))
  ELSE <<>>

\* C7 as stated: after the DICOM walk of a case every file of the walk has
\* been visited, whatever happened on the files before it, and the flags
\* still tell what the lists hold.
C7_AsStated ==
  last.walked =>
    /\ \A i \in 1..Len(Expected) : Expected[i].id \in last.visited
    /\ last.kind = "today" =>
         /\ last.single # <<>> => last.has_single
         /\ last.project # <<>> => last.has_project
         /\ last.multi # <<>> => last.has_multiple

\* C8 as stated: the instances written into Orthanc/ from different inputs
\* carry pairwise different SOPInstanceUIDs.
C8_AsStated ==
  \A c \in 1..Len(root) :
    \A o1 \in staging[c].out, o2 \in staging[c].out :
      (o1.src # o2.src /\ o1.sop # NoUid) => o1.sop # o2.sop

\* the ids in the four DICOM buckets, list after list
DicomBuckets ==
  last.single \o last.project \o last.twoD
    \o [k \in 1..Cardinality(UNION {Range(last.multi[i]) : i \in 1..Len(last.multi)}) |->
          CHOOSE id \in UNION {Range(last.multi[i]) : i \in 1..Len(last.multi)} :
            Cardinality({x \in UNION {Range(last.multi[i]) : i \in 1..Len(last.multi)} : x <= id}) = k]

SopOf(id) == (CHOOSE f \in Range(root[last.case].files) : f.id = id).sop

\* an earlier file of the walk was read and carries the same SOPInstanceUID
AlreadySeen(order, j) ==
  /\ order[j].magic = "yes" /\ order[j].read = "ok" /\ order[j].sop # NoUid
  /\ \E i \in 1..(j - 1) :
       order[i].magic = "yes" /\ order[i].read = "ok" /\ order[i].sop = order[j].sop

\* C9: after the DICOM walk of a case (find_cases and _process_single_case)
\* no SOPInstanceUID is carried by two files of singleDicomFiles,
\* projectFiles, twoDDicomFiles and the multiSeries lists, and a file whose
\* SOPInstanceUID an earlier file of the walk carried is in no bucket and was
\* not mirrored into Dicoms/.
C9_Dedup ==
  last.walked =>
    /\ \A i \in 1..Len(DicomBuckets), j \in 1..Len(DicomBuckets) :
         (i # j /\ SopOf(DicomBuckets[i]) # NoUid)
           => SopOf(DicomBuckets[i]) # SopOf(DicomBuckets[j])
    /\ \A j \in 1..Len(Expected) :
         AlreadySeen(Expected, j)
           => (Expected[j].id \notin Range(DicomBuckets) /\ Expected[j].id \notin last.mirrored)

\* a walk has met a second file with the SOPInstanceUID of an earlier one,
\* and the earlier one is in a bucket
C9_Witness ==
  /\ last.walked
  /\ \E j \in 1..Len(Expected) :
       /\ AlreadySeen(Expected, j) /\ Expected[j].id \in last.visited
       /\ \E i \in 1..(j - 1) :
            Expected[i].sop = Expected[j].sop /\ Expected[i].id \in Range(DicomBuckets)

\* the number of buckets that hold a file
Holding(id) ==
  Cardinality({b \in {"pdf_files", "image_files", "single", "project", "twoD"} :
                 id \in Range(last[b])})
    + Cardinality({i \in 1..Len(last.multi) : id \in Range(last.multi[i])})

\* C10 as stated: after the two walks of a case every file is in at most
\* one of pdfFiles, imageFiles, singleDicomFiles, projectFiles,
\* twoDDicomFiles and the multiSeries lists.
C10_AsStated ==
  last.walked =>
    \A f \in Range(root[last.case].files) : Holding(f.id) <= 1

\* the last step is a pass of a later today scan over a case that the scans
\* before it staged, and nothing failed in any of them
SecondRun ==
  /\ last.kind = "today" /\ last.walked /\ last.case \in scan.seen
  /\ scan.n >= 2 /\ scan.faults = 0

\* C11 as stated: a second run of the staging of find_cases over an
\* unchanged case writes nothing into Attachments/, Dicoms/ and Orthanc/,
\* so the files of Orthanc/ are the ones the first run left.
C11_AsStated == SecondRun => last.wrote = NoWrites

\* the bucket the table over (NumberOfFrames, Modality, isFromOnDemand) names
TableBucket(f) ==
  IF f.nf # "absent"
  THEN IF f.nf = "many" /\ upper(f.mod) = "CT" /\ f.loc = "ondemand" THEN "single"
       ELSE IF f.nf = "one" /\ upper(f.mod) = "CT" /\ f.loc = "ondemand" THEN "project"
       ELSE "none"
  ELSE IF upper(f.mod) = "CT" THEN "multi" ELSE "twoD"

\* the list of multiSeries that holds the file, 0 when none does
SeriesList(id) ==
  IF \E i \in 1..Len(last.multi) : id \in Range(last.multi[i])
  THEN CHOOSE i \in 1..Len(last.multi) : id \in Range(last.multi[i])
  ELSE 0

\* the bucket the last walk put the file in
BucketOf(id) ==
  IF id \in Range(last.single) THEN "single"
  ELSE IF id \in Range(last.project) THEN "project"
  ELSE IF id \in Range(last.twoD) THEN "twoD"
  ELSE IF SeriesList(id) # 0 THEN "multi"
  ELSE "none"

\* the walk of the last step read the file as a DICOM no earlier file of
\* which carried the SOPInstanceUID
Classified(j) ==
  /\ Expected[j].magic = "yes" /\ Expected[j].read = "ok"
  /\ Expected[j].id \in last.visited
  /\ ~AlreadySeen(Expected, j)

\* C30 as stated: after the DICOM walk of a case (find_cases and
\* _process_single_case) every non-duplicate DICOM the walk read is in the
\* bucket of the table: NF>1, CT, OnDemand: singleDicomFiles; NF=1, CT,
\* OnDemand: projectFiles; NF present otherwise: none; NF absent, not CT:
\* twoDDicomFiles; NF absent, CT: the multiSeries list of its
\* SeriesInstanceUID, or of unknown-<caseName> when it has none.
C30_AsStated ==
  last.walked =>
    \A j \in 1..Len(Expected) :
      Classified(j) =>
        /\ BucketOf(Expected[j].id) = TableBucket(Expected[j])
        /\ \A k \in 1..Len(Expected) :
             (Classified(k) /\ SeriesList(Expected[j].id) # 0 /\ SeriesList(Expected[k].id) # 0)
               => ((SeriesList(Expected[j].id) = SeriesList(Expected[k].id))
                     <=> (SeriesKey(Expected[j]) = SeriesKey(Expected[k])))

\* no other file of the walk carries the name of the j-th
OwnName(j) ==
  \A k \in 1..Len(Expected) : k # j => name(Expected[k].id) # name(Expected[j].id)

\* C31 as stated: after the pass of find_cases over a case, every DICOM the
\* walk read with a SOPInstanceUID not seen before is in Dicoms/ of the
\* staged case, whichever bucket it fell into, the files of no bucket
\* included.  Stated for passes without a fault, for files that carry a
\* Modality and share their name with no other file of the walk.
C31_AsStated ==
  (last.walked /\ last.kind = "today" /\ scan.faults = 0) =>
    \A j \in 1..Len(Expected) :
      (Classified(j) /\ Expected[j].mod # "none" /\ OwnName(j))
        => Expected[j].id \in staging[last.case].dicoms

\* the outputs '<caseName> DCM.dcm' in Orthanc/ of the case of the last step
FusedOutputs == {o \in staging[last.case].out : o.kind = "FUSED"}

\* the last step classified and staged a case and met no fault
Staged == last.walked /\ scan.faults = 0 /\ last.outcome \in {"handed", "continued"}

\* a list of multiSeries of maximal length whose first file carries the UID
LongestStartsWith(sop) ==
  \E i \in 1..Len(last.multi) :
    /\ \A k \in 1..Len(last.multi) : Len(last.multi[k]) <= Len(last.multi[i])
    /\ SopOf(last.multi[i][1]) = sop

\* C32 as stated: after a case is staged (find_cases and
\* _process_single_case), if singleDicomFiles is empty and multiSeries is
\* not, whatever the romexis flag, Orthanc/ holds exactly one file
\* '<caseName> DCM.dcm', fused from a series with the most files, and the
\* labels contain 3D-DICOM; if singleDicomFiles is not empty, nothing is
\* fused.
C32_AsStated ==
  Staged =>
    /\ (last.single = <<>> /\ last.multi # <<>>) =>
         /\ Cardinality(FusedOutputs) = 1
         /\ \A o \in FusedOutputs : LongestStartsWith(o.sop)
         /\ "3D-DICOM" \in Range(last.labels)
    /\ last.single # <<>> => FusedOutputs = {}

\* every file of the list has its '<stem> DCM .dcm' in Orthanc/
AllStaged(ids) ==
  \A i \in 1..Len(ids) : Exists(staging[last.case].out, "DCM", ids[i])

\* C33 as stated: after a case is staged (find_cases and
\* _process_single_case), whenever twoDDicomFiles is not empty every 2D
\* DICOM is in Orthanc/ and the labels contain 2D-DICOM, and whenever
\* projectFiles is not empty every project file is in Orthanc/ and the
\* labels contain OD3D; neither row suppresses the other.
C33_AsStated ==
  Staged =>
    /\ last.twoD # <<>> => (AllStaged(last.twoD) /\ "2D-DICOM" \in Range(last.labels))
    /\ last.project # <<>> => (AllStaged(last.project) /\ "OD3D" \in Range(last.labels))

\* C34 as stated: on every pass over a case that hands Orthanc/ to the
\* uploader (find_cases and _process_single_case), the labels handed over
\* contain PDF exactly when pdfFiles is not empty and Image exactly when
\* imageFiles is not empty, whether the outputs were created by this pass or
\* were there before.
C34_AsStated ==
  (last.walked /\ scan.faults = 0 /\ last.outcome = "handed") =>
    /\ "PDF" \in Range(last.labels) <=> last.pdf_files # <<>>
    /\ "Image" \in Range(last.labels) <=> last.image_files # <<>>

\* what find_cases makes of the files of a case with empty staging and
\* without a fault: the two walks and the staging
TodayPass(files) ==
  LET att == AttachmentWalk(files)
      w == DicomWalk(WalkStart, Walk(files, Descends(TRUE)), TRUE, TRUE)
  IN [att |-> att, w |-> w, res |-> StageToday(att, w, {}, 0, "none")]

\* the outputs by kind and source
Named(out) == {[kind |-> o.kind, src |-> o.src] : o \in out}

\* C35 as stated: when _process_single_case stages a case of yesterday
\* (nothing was staged for it and no fault is met), the buckets, the
\* outputs in Orthanc/ and the labels are those find_cases derives from the
\* same folder contents, with the one extra label Yesterday-Recovery.
C35_AsStated ==
  (last.walked /\ last.kind = "yesterday" /\ scan.faults = 0 /\ last.outcome = "handed") =>
    LET t == TodayPass(root[last.case].files)
    IN /\ last.pdf_files = IdSeq(t.att.pdf_files)
       /\ last.image_files = IdSeq(t.att.image_files)
       /\ last.single = IdSeq(t.w.single)
       /\ last.project = IdSeq(t.w.project)
       /\ last.twoD = IdSeq(t.w.twoD)
       /\ last.multi = [i \in 1..Len(t.w.multi) |-> IdSeq(t.w.multi[i].files)]
       /\ Named(staging[last.case].out) = Named(t.res.out)
       /\ last.labels = Append(t.res.labels, "Yesterday-Recovery")

-----------------------------------------------------------------------------
(* The requests to the PACS and the bearer token.                           *)
(* One thread calls upload_file, _instance_exists_by_uid and add_label     *)
(* with non-empty arguments; the server answers each request with any of   *)
(* Statuses.  The calls follow each other at once: a cached token has run   *)
(* out at the next call when its expires_in is within the margin.           *)

MaxCalls == 2

Statuses == {200, 401, 404, 500}

RequestMethods == {"upload_file", "_instance_exists_by_uid", "add_label"}

\* the first request of each method
FirstKind(fn) ==
  CASE fn = "upload_file" -> "upload"
    [] fn = "_instance_exists_by_uid" -> "sop"
    [] fn = "add_label" -> "lookup"

\* the request as it is sent first: method, URL and body
FirstRequest(kind) ==
  CASE kind = "upload" ->
         [method |-> "POST", url |-> "/instances", body |-> "file"]
    [] kind = "sop" ->
         [method |-> "POST", url |-> "/tools/find", body |-> "SOPInstanceUID"]
    [] kind = "series" ->
         [method |-> "POST", url |-> "/tools/find", body |-> "SeriesInstanceUID"]
    [] kind = "lookup" ->
         [method |-> "POST", url |-> "/tools/find", body |-> "StudyInstanceUID"]
    [] kind = "label" ->
         [method |-> "PUT", url |-> "/studies/{orthanc_id}/labels/{label}", body |-> "none"]

\* the request as the branch `status_code == 401` sends it
RetryRequest(kind) ==
  CASE kind = "lookup" ->
         [method |-> "GET", url |-> "/tools/find/{study_uid}", body |-> "none"]
    [] kind = "label" ->
         [method |-> "POST", url |-> "/studies/{orthanc_id}/labels/{label}", body |-> "none"]
    [] OTHER -> FirstRequest(kind)

\* the requests that are followed by `if ....status_code == 401:`
Retried(kind) == kind # "series"

\* the thirty seconds of _fetch_token, in units of ten seconds
Margin == 3

\* the clock stops here
MaxTime == 6

\* the expires_in a token response may carry (0 also stands for a response
\* without expires_in), in units of ten seconds
ExpiresIn == {0, 2, 3, 4, 5}

\* expires_at without the thirty seconds
ExpiresAtLate(t, expires_in) == t + expires_in

\* expires_at = time.time() + max(0.0, expires_in - 30.0)
ExpiresAt(t, expires_in) ==
  t + (IF expires_in - Margin > 0 THEN expires_in - Margin ELSE 0)

\* _get_token: the cached token while time.time() < expires_at, else
\* _fetch_token; ok: the token endpoint answers with a token, which carries
\* expires_in
_get_token(tok, ok, expires_in) ==
  IF tok.access_token # 0 /\ now < tok.expires_at
  THEN [token |-> tok, fetched |-> FALSE, raised |-> FALSE]
  ELSE IF ok
       THEN [token |-> [access_token |-> issued + 1,
                        expires_at |-> ExpiresAt(now, expires_in)],
             fetched |-> TRUE, raised |-> FALSE]
       ELSE [token |-> tok, fetched |-> FALSE, raised |-> TRUE]

\* the effect of a call of _get_token that found tok in the cache
TokenStep(tok, got, expires_in) ==
  /\ _token' = got.token
  /\ issued' = IF got.fetched THEN issued + 1 ELSE issued
  /\ granted' = IF got.fetched THEN [at |-> now, expires_in |-> expires_in] ELSE granted
  /\ handed' = [n |-> handed.n + 1,
                token |-> IF got.raised THEN 0 ELSE got.token.access_token,
                at |-> now, contacted |-> got.fetched \/ got.raised, cached |-> tok,
                grant |-> granted]
  /\ UNCHANGED now

\* what an exception of _get_token becomes: upload_file lets it through,
\* and so does _instance_exists_by_uid at its first call (outside the try);
\* inside the try blocks it becomes False
TokenFailure(fn, first) ==
  IF fn = "upload_file" \/ (fn = "_instance_exists_by_uid" /\ first)
  THEN "raised" ELSE "False"

\* What follows the final answer to a request: the next request of the
\* method or its result; found: the JSON of the answer is a non-empty list.
AfterResponse(kind, status, found) ==
  CASE kind = "upload" ->
         [next |-> "none", result |-> IF status = 200 THEN "json" ELSE "raised"]
    [] kind = "sop" ->
         IF status = 200 /\ found
         THEN [next |-> "series", result |-> "none"]
         ELSE [next |-> "none", result |-> "False"]
    [] kind = "series" ->
         [next |-> "none", result |-> IF status = 200 /\ found THEN "True" ELSE "False"]
    [] kind = "lookup" ->
         IF status = 200 /\ found
         THEN [next |-> "label", result |-> "none"]
         ELSE [next |-> "none", result |-> "False"]
    [] kind = "label" ->
         [next |-> "none", result |-> IF status = 200 THEN "True" ELSE "False"]

\* the call goes on with the next request, or has its result
GoOn(c, after) ==
  IF after.next = "none"
  THEN [c EXCEPT !.pc = "done", !.result = after.result]
  ELSE [c EXCEPT !.pc = "send", !.kind = after.next]

\* the entry of the wire log
Wire(req, kind, attempt, token, status) ==
  [call |-> call.n, kind |-> kind, attempt |-> attempt, method |-> req.method,
   url |-> req.url, body |-> req.body, token |-> token, status |-> status]

\* A request method is called: token = self._get_token().
CallMethod ==
  /\ call.pc = "idle"
  /\ call.n < MaxCalls
  /\ \E fn \in RequestMethods, ok \in BOOLEAN, e \in ExpiresIn :
       LET got == _get_token(_token, ok, e)
       IN /\ TokenStep(_token, got, e)
          /\ call' = IF got.raised
                     THEN [fn |-> fn, pc |-> "done", kind |-> "none", token |-> 0,
                           result |-> TokenFailure(fn, TRUE), n |-> call.n + 1]
                     ELSE [fn |-> fn, pc |-> "send", kind |-> FirstKind(fn),
                           token |-> got.token.access_token,
                           result |-> "none", n |-> call.n + 1]
  /\ sent' = <<>>
  /\ UNCHANGED getters
  /\ UNCHANGED <<upVars, scanVars, drvVars, thrVars, dayVars>>

\* The request is sent for the first time and answered.  On 401, where the
\* code has the branch: self._token = _TokenState(); token = _get_token().
Request ==
  /\ call.pc = "send"
  /\ \E status \in Statuses, found \in BOOLEAN, ok \in BOOLEAN, e \in ExpiresIn :
       /\ sent' = Append(sent, Wire(FirstRequest(call.kind), call.kind, 1,
                                     call.token, status))
       /\ IF status = 401 /\ Retried(call.kind)
          THEN LET got == _get_token(NoToken, ok, e)
               IN /\ TokenStep(NoToken, got, e)
                  /\ call' = IF got.raised
                             THEN [call EXCEPT !.pc = "done",
                                               !.result = TokenFailure(call.fn, FALSE)]
                             ELSE [call EXCEPT !.pc = "retry",
                                               !.token = got.token.access_token]
          ELSE /\ call' = GoOn(call, AfterResponse(call.kind, status, found))
               /\ UNCHANGED <<_token, issued, granted, now, handed>>
  /\ UNCHANGED getters
  /\ UNCHANGED <<upVars, scanVars, drvVars, thrVars, dayVars>>

\* The request of the 401 branch is sent and answered; its answer is final.
Retry ==
  /\ call.pc = "retry"
  /\ \E status \in Statuses, found \in BOOLEAN :
       /\ sent' = Append(sent, Wire(RetryRequest(call.kind), call.kind, 2,
                                     call.token, status))
       /\ call' = GoOn(call, AfterResponse(call.kind, status, found))
  /\ UNCHANGED <<_token, issued, granted, now, handed>>
  /\ UNCHANGED getters
  /\ UNCHANGED <<upVars, scanVars, drvVars, thrVars, dayVars>>

\* The method returns or raises.
Return ==
  /\ call.pc = "done"
  /\ call' = [call EXCEPT !.pc = "idle"]
  /\ UNCHANGED <<_token, issued, granted, now, handed, sent>>
  /\ UNCHANGED getters
  /\ UNCHANGED <<upVars, scanVars, drvVars, thrVars, dayVars>>

\* ten seconds pass
Tick ==
  /\ now < MaxTime
  /\ now' = now + 1
  /\ UNCHANGED <<_token, issued, granted, handed, sent, call>>
  /\ UNCHANGED getters
  /\ UNCHANGED <<upVars, scanVars, drvVars, thrVars, dayVars>>

InitRequests ==
  /\ InitUploadIdle
  /\ InitScanIdle

NextRequests ==
  \/ CallMethod
  \/ Request
  \/ Retry
  \/ Return

SpecRequests == InitRequests /\ [][NextRequests]_vars

-----------------------------------------------------------------------------
(* The token cache on its own: _get_token is called again and again while  *)
(* time passes.                                                             *)

\* calls of _get_token in one behaviour
MaxGets == 3

\* A caller asks for the token.
GetToken ==
  /\ call.pc = "idle"
  /\ handed.n < MaxGets
  /\ \E ok \in BOOLEAN, e \in ExpiresIn :
       TokenStep(_token, _get_token(_token, ok, e), e)
  /\ UNCHANGED <<sent, call>>
  /\ UNCHANGED getters
  /\ UNCHANGED <<upVars, scanVars, drvVars, thrVars, dayVars>>

NextToken ==
  \/ GetToken
  \/ Tick

SpecToken == InitRequests /\ [][NextToken]_vars

\* the last call of _get_token returned the cached token
Reused == handed.n > 0 /\ ~handed.contacted

\* fetch time + max(0, expires_in - 30) of the token the call found cached
UsableUntil(g) ==
  g.at + (IF g.expires_in > Margin THEN g.expires_in - Margin ELSE 0)

\* the token endpoint is contacted exactly when nothing is cached or the
\* cached token is past its margin; otherwise the cached token is returned
\* and the cache is as it was
ContactsWhenDue ==
  /\ handed.n > 0 =>
       (handed.contacted <=>
          (handed.cached.access_token = 0 \/ handed.at >= UsableUntil(handed.grant)))
  /\ Reused => (handed.token = handed.cached.access_token /\ _token = handed.cached)

\* C21 as stated: the token endpoint is contacted exactly when due, no
\* token is handed out within thirty seconds of its expiry (fetch time +
\* expires_in), and a token with expires_in <= 30 is never reused.
C21_AsStated ==
  /\ ContactsWhenDue
  /\ (handed.n > 0 /\ handed.token # 0)
       => handed.at + Margin < granted.at + granted.expires_in
  /\ Reused => granted.expires_in > Margin

\* C21, amended: the token endpoint is contacted exactly when due; a token
\* that is returned from the cache is more than thirty seconds from its
\* expiry, and a token with expires_in <= 30 is returned by the call that
\* fetched it only.
C21_TokenCache ==
  /\ ContactsWhenDue
  /\ Reused => handed.at + Margin < granted.at + granted.expires_in
  /\ Reused => granted.expires_in > Margin

\* a token that was fetched after an earlier one had run out is returned
\* from the cache ten seconds after its fetch
C21_Witness ==
  /\ Reused /\ issued >= 2
  /\ handed.at = granted.at + 1 /\ granted.expires_in > Margin

\* the answer 401 to the request i of the log was handled as promised
RetriedOnce(i) ==
  IF sent[i].attempt = 1
  THEN \/ i = Len(sent) /\ call.pc = "retry" /\ _token.access_token = call.token
       \/ i = Len(sent) /\ call.pc \in {"done", "idle"} /\ _token = NoToken
       \/ /\ i < Len(sent)
          /\ sent[i + 1].kind = sent[i].kind /\ sent[i + 1].attempt = 2
          /\ sent[i + 1].method = sent[i].method
          /\ sent[i + 1].url = sent[i].url
          /\ sent[i + 1].body = sent[i].body
          /\ sent[i + 1].token > sent[i].token
  ELSE i = Len(sent) \/ sent[i + 1].kind # sent[i].kind

\* C20 as stated: every answer 401 to a request of any kind is followed by
\* a fresh token and by one more sending of the same request (same method,
\* URL and body), unless the fresh token cannot be fetched; a second 401
\* is not followed by a third sending.
C20_AsStated ==
  \A i \in 1..Len(sent) : sent[i].status = 401 => RetriedOnce(i)

-----------------------------------------------------------------------------
(* The scan driver and the stop signal.                                     *)

\* C12 as stated: once the stop signal is set while find_cases is in its
\* loop over the cases, no further case of that scan is processed.
C12_AsStated ==
  [][(stop_event /\ scan.running)
       => (scan'.seen = scan.seen /\ scan'.raised = scan.raised)]_vars

\* a step of the driver thread
DriverStep == driver' # driver \/ scan' # scan

\* C13 as stated: after the stop signal is set find_cases is not called
\* again.
C13_AsStated == [][stop_event => scan'.n = scan.n]_vars

\* C13, amended: a wait that finds the stop signal set makes main return,
\* after which no scan is started and nothing is processed; and no step of
\* the driver thread, the return included, touches a worker thread that
\* was started before.
C13_StopHonoured ==
  [][ /\ (stop_event /\ driver.pc = "wait" /\ driver' # driver) => driver'.pc = "returned"
      /\ driver.pc = "returned" => (driver' = driver /\ scan' = scan)
      /\ DriverStep => (/\ Len(runs') >= Len(runs)
                        /\ \A i \in 1..Len(runs) : runs'[i] = runs[i]) ]_vars

\* main has returned on the stop signal while a worker it started is in the
\* middle of its run
C13_Witness ==
  /\ stop_event /\ driver.pc = "returned"
  /\ \E i \in 1..Len(runs) : runs[i].pc \in {"check", "upload", "confirm"}

\* C14: a pass of the loop that raised (in the path planning or inside
\* find_cases) ends in the wait like any other; main returns only on the
\* stop signal; and, while the stop signal is not set, the pass after a
\* failed one is entered.
C14_DriverSurvives ==
  /\ [][ /\ (driver.pc \in {"loop", "tick"} /\ driver' # driver)
             => driver'.pc \in {"tick", "wait"}
         /\ driver'.pc = "returned" => stop_event ]_vars
  /\ \A k \in 1..(MaxScans - 1) :
       (driver.pc = "wait" /\ driver.failed /\ driver.ticks = k)
         ~> (driver.ticks > k \/ stop_event)

\* the pass after a failed one has called find_cases
C14_Witness ==
  /\ driver.failed /\ driver.ticks >= 2
  /\ driver.pc = "tick" /\ scan.running

-----------------------------------------------------------------------------
(* The upload kick-off seen from the scan.                                  *)

\* C15: when a required PACS setting is missing during the pass over a
\* case, the pass writes no sentinel, takes no claim and starts no worker,
\* the files staged in Orthanc/ stay, and the scan goes on to the next
\* directory entry.
C15_Unconfigured ==
  [][(/\ scan.running /\ scan'.pos # scan.pos
      /\ last'.case = scan.pos /\ last'.missing)
       => /\ orthanc' = orthanc
          /\ ACTIVE_UPLOAD_FOLDERS' = ACTIVE_UPLOAD_FOLDERS
          /\ runs' = runs
          /\ \A c \in 1..Len(root) : staging[c].out \subseteq staging'[c].out
          /\ scan'.running /\ scan'.pos = scan.pos + 1 ]_vars

\* a pass with a missing setting has left outputs in Orthanc/ without
\* handing them over, and the scan stands before the next folder
C15_Witness ==
  /\ last.missing /\ last.case \in scan.seen /\ last.outcome = "unconfigured"
  /\ staging[last.case].out # {} /\ ~staging[last.case].handed
  /\ scan.running /\ scan.pos = 2

\* the first *.dcm file of Orthanc/ was answered True
FirstFound ==
  /\ Rglob(staging[last.case].out) # <<>>
  /\ Rglob(staging[last.case].out)[1].path \in last.found

\* C17 as stated: in a yesterday pass over a case whose Orthanc/ holds
\* outputs (the PACS settings being complete), the case is skipped exactly
\* when the existence check is positive for the first DICOM file of
\* Orthanc/.
C17_AsStated ==
  (/\ last.kind = "yesterday" /\ last.case \in scan.seen \cup scan.raised
   /\ ~last.walked /\ ~last.missing /\ last.outcome # "failed")
    => (last.outcome = "uploaded" <=> FirstFound)

\* C18: no step creates, changes or removes anything in a case folder of
\* the day root.
C18_SourceReadOnly == [][root' = root]_vars

\* a today pass has written into the staging folders of a case and handed
\* Orthanc/ to a worker, which has created temp/
C18_Witness ==
  /\ last.kind = "today" /\ last.wrote.dicoms # {} /\ last.wrote.out # {}
  /\ \E i \in 1..Len(runs) : runs[i].pc = "upload" /\ orthanc[runs[i].dir].temp

\* C19: a call of upload_folder_async that finds the key of its folder in
\* the active set returns at once: the caller is idle again, and the
\* sentinels, temp/, the active set and the worker threads are as before.
C19_InProgress ==
  [][\A c \in DOMAIN callers :
       (/\ callers[c].pc = "check"
        /\ _folder_key(callers[c].path) \in ACTIVE_UPLOAD_FOLDERS
        /\ callers'[c] # callers[c])
         => /\ callers'[c] = IdleCaller
            /\ orthanc' = orthanc
            /\ ACTIVE_UPLOAD_FOLDERS' = ACTIVE_UPLOAD_FOLDERS
            /\ runs' = runs ]_vars

\* the caller stands at the membership test for a folder that a worker is
\* uploading from, the sentinel and temp/ of that run being on disk
C19_Witness ==
  \E c \in DOMAIN callers, i \in 1..Len(runs) :
    /\ callers[c].pc = "check"
    /\ _folder_key(callers[c].path) \in ACTIVE_UPLOAD_FOLDERS
    /\ runs[i].key = _folder_key(callers[c].path) /\ runs[i].pc = "upload"
    /\ orthanc[runs[i].dir].lock /\ orthanc[runs[i].dir].temp

\* the callers other than c that wrote the sentinel of directory d and have
\* not returned: the folder is in the middle of being claimed
Claiming(c, d) ==
  {b \in DOMAIN callers \ {c} :
     callers[b].pc \in {"wprog", "mark", "spawn"} /\ RealDir(callers[b].path) = d}

\* C37 as stated: under any interleaving of upload_folder_async calls and
\* workers, a caller takes the interrupted branch (it deletes
\* .pacs_uploading, .pacs_progress and temp/) only when no worker runs on
\* the folder and no other caller is in the middle of claiming it.
C37_AsStated ==
  [][\A c \in DOMAIN callers :
       (callers[c].pc = "recover" /\ callers'[c].pc = "wlock")
         => /\ Live(RealDir(callers[c].path)) = {}
            /\ Claiming(c, RealDir(callers[c].path)) = {} ]_vars

\* the steps of a thread inside upload_folder_async
CallerThread ==
  \/ \E c \in DOMAIN callers : CallerCheckActive(c)
  \/ \E c \in DOMAIN callers : CallerProbe(c)
  \/ \E c \in DOMAIN callers : CallerRecover(c)
  \/ \E c \in DOMAIN callers : CallerWriteLock(c)
  \/ \E c \in DOMAIN callers : CallerWriteProgress(c)
  \/ \E c \in DOMAIN callers : CallerMark(c)
  \/ \E c \in DOMAIN callers : CallerSpawn(c)

\* the steps of the i-th worker thread
WorkerThread(i) ==
  /\ i \in 1..Len(runs)
  /\ \/ WorkerBegin(i)
     \/ WorkerCheck(i)
     \/ WorkerUpload(i)
     \/ WorkerConfirm(i)
     \/ WorkerFinish(i)
     \/ WorkerLabels(i)
     \/ WorkerCleanup(i)
     \/ WorkerRelease(i)

\* Every thread that is inside upload_folder_async and every worker thread
\* goes on running, and every HTTP call returns or times out; nothing is
\* assumed about new calls.
SpecFair ==
  Spec /\ WF_vars(CallerThread) /\ \A i \in 1..MaxRuns : WF_vars(WorkerThread(i))

\* C38 as stated: every folder key added to the active set is removed from
\* it later, on every exit path of the run, the failure to start the worker
\* thread included.
C38_AsStated ==
  \A p \in Paths :
    (_folder_key(p) \in ACTIVE_UPLOAD_FOLDERS) ~> (_folder_key(p) \notin ACTIVE_UPLOAD_FOLDERS)

-----------------------------------------------------------------------------
(* The existence query.                                                     *)

\* C22: whatever the network does (a token being there), the existence
\* query is True exactly when the SOP UID is present, the SOPInstanceUID
\* query is answered with a non-empty result and the SeriesInstanceUID
\* query is answered with a non-empty result; a 404, an empty result and an
\* absent SOP UID give False.
C22_Exists ==
  \A f \in UploadCatalogue, net \in NetEnv :
    LET answer == _instance_exists_by_uid(f.sop, f.series, pacs, net)
        sopHit == net.sopResp = "ok" /\ \E i \in pacs : i.sop = f.sop
        seriesHit == net.seriesResp = "ok" /\ \E i \in pacs : i.series = f.series
    IN /\ net.tok => (answer = "pos" <=> (f.sop # NoUid /\ sopHit /\ seriesHit))
       /\ f.sop = NoUid => answer = "neg"
       /\ (net.tok /\ (net.sopResp = "404" \/ ~sopHit \/ ~seriesHit)) => answer = "neg"

\* a worker has had the answer True for one file and the answer False for
\* the next, which it is about to upload
C22_Witness ==
  \E i \in 1..Len(runs) :
    /\ runs[i].pc = "upload" /\ runs[i].positive > 0
    /\ runs[i].sop # NoUid /\ runs[i].cur = "neg"

-----------------------------------------------------------------------------
(* The end of an upload run.                                                *)

\* the run i took a step
Stepped(i) == runs'[i] # runs[i]

\* the sentinels, temp/ and the claim of the run i are untouched by the step
Held(i) ==
  /\ orthanc'[runs[i].dir].lock = orthanc[runs[i].dir].lock
  /\ orthanc'[runs[i].dir].temp = orthanc[runs[i].dir].temp
  /\ ACTIVE_UPLOAD_FOLDERS' = ACTIVE_UPLOAD_FOLDERS

Called(r) == [k \in 1..Len(r.labelled) |-> r.labelled[k].label]

\* the run is past its labels
PastLabels(r) == r.pc \in {"cleanup", "release"} /\ r.files # <<>>

\* C24 as stated: in a run that was given labels, add_label is called
\* exactly when the failure list is empty after all files, and then once
\* for every label.
C24_AsStated ==
  \A i \in 1..Len(runs) :
    (PastLabels(runs[i]) /\ runs[i].labels # <<>>)
      => /\ runs[i].labelled # <<>> <=> runs[i].failures = <<>>
         /\ runs[i].failures = <<>> => Called(runs[i]) = runs[i].labels

\* C24, amended: add_label is called exactly when the failure list is empty
\* after all files and a StudyInstanceUID was read from the folder; then it
\* is called once for every label, in order, whatever the calls before
\* returned; the run goes on to its cleanup in every case.
C24_Labels ==
  /\ [](\A i \in 1..Len(runs) :
         (PastLabels(runs[i]) /\ runs[i].labels # <<>>)
           => /\ runs[i].labelled # <<>>
                   <=> (runs[i].failures = <<>> /\ runs[i].study = "uid")
              /\ runs[i].labelled # <<>> => Called(runs[i]) = runs[i].labels
              /\ runs[i].failures # <<>> => runs[i].study = "unread")
  /\ [][\A i \in 1..Len(runs) :
         (Stepped(i) /\ runs[i].pc = "label") => runs'[i].pc = "cleanup"]_vars

\* add_label returned False for the first label and was called for the
\* second; the run is about to clean up
C24_Witness ==
  \E i \in 1..Len(runs) :
    /\ runs[i].pc = "cleanup" /\ Len(runs[i].labelled) = 2
    /\ ~runs[i].labelled[1].ok /\ runs[i].labelled[2].ok

-----------------------------------------------------------------------------
(* The files of an upload run.                                              *)

\* the failure entry of the file the run i is at
Entry(i, error) == [path |-> runs[i].files[runs[i].idx].path, error |-> error]

\* the run i went from the upload of a file to its confirmation, or passed
\* it over
ConfirmsWithSop(i) ==
  (Stepped(i) /\ runs[i].pc = "upload" /\ runs'[i].invoked > runs[i].invoked
     /\ runs'[i].failures = runs[i].failures)
    => (runs'[i].pc = "confirm" <=> runs[i].sop # NoUid)

\* the polls of the confirmation the run i has just made
Polls(i) == runs'[i].polled

\* at most three polls, the last of them the only one that may be other
\* than False; a True confirms the file
PollsUntilTrue(i) ==
  /\ Len(Polls(i)) \in 1..3
  /\ \A k \in 1..(Len(Polls(i)) - 1) : Polls(i)[k] = "neg"
  /\ (\E k \in 1..Len(Polls(i)) : Polls(i)[k] = "pos")
       => runs'[i].failures = runs[i].failures

\* C25 as stated: a file with a SOP UID is polled for after its upload, at
\* most three times; a poll that is True confirms it, and when no poll is
\* True one entry upload-not-confirmed is added for it.
C25_AsStated ==
  [][\A i \in 1..Len(runs) :
       /\ ConfirmsWithSop(i)
       /\ (Stepped(i) /\ runs[i].pc = "confirm") =>
            /\ PollsUntilTrue(i)
            /\ (\A k \in 1..Len(Polls(i)) : Polls(i)[k] # "pos")
                 => runs'[i].failures =
                      Append(runs[i].failures, Entry(i, "upload-not-confirmed")) ]_vars

\* C25, amended: as above, but the entry upload-not-confirmed is added when
\* three polls answered False; a poll that raises ends the polling, and one
\* entry with the text of the exception is added instead.
C25_Confirm ==
  [][\A i \in 1..Len(runs) :
       /\ ConfirmsWithSop(i)
       /\ (Stepped(i) /\ runs[i].pc = "confirm") =>
            /\ PollsUntilTrue(i)
            /\ (\A k \in 1..Len(Polls(i)) : Polls(i)[k] = "neg")
                 => /\ Len(Polls(i)) = 3
                    /\ runs'[i].failures =
                         Append(runs[i].failures, Entry(i, "upload-not-confirmed"))
            /\ (\E k \in 1..Len(Polls(i)) : Polls(i)[k] = "raise")
                 => runs'[i].failures = Append(runs[i].failures, Entry(i, "exception")) ]_vars

\* the third poll confirmed the first file of a run, which has gone on to
\* the second
C25_Witness ==
  \E i \in 1..Len(runs) :
    /\ runs[i].pc = "check" /\ runs[i].idx = 2 /\ runs[i].failures = <<>>
    /\ runs[i].polled = <<"neg", "neg", "pos">>

\* the run i is inside its loop over the files
InLoop(i) == runs[i].pc \in {"check", "upload", "confirm"}

\* the step added an entry for the file the run i is at
Recorded(i) ==
  \E error \in {"exception", "upload-not-confirmed"} :
    runs'[i].failures = Append(runs[i].failures, Entry(i, error))

\* the loop of the run i went on: to the next file in sorted order, or to
\* its end after the last
WentOn(i) ==
  IF runs[i].idx < Len(runs[i].files)
  THEN runs'[i].pc = "check" /\ runs'[i].idx = runs[i].idx + 1
  ELSE runs'[i].pc = "finish"

\* the header of the file was read for the run i without yielding the SOP
\* UID it holds, and the file goes to the upload
UidReadFailed(i) ==
  /\ runs[i].pc = "check" /\ runs'[i].pc = "upload"
  /\ runs[i].files[runs[i].idx].sop # NoUid /\ runs'[i].sop = NoUid

\* what holds of every error on a file: at most one entry, for that file,
\* after which the loop goes on; a failed temp copy and a failed upload are
\* recorded; the sentinels are gone when the run ends
Isolated(i) ==
  /\ (Stepped(i) /\ InLoop(i)) =>
       /\ runs'[i].failures = runs[i].failures \/ Recorded(i)
       /\ Recorded(i) => WentOn(i)
       /\ ~Recorded(i) => (runs'[i].pc \in {"upload", "confirm"} \/ WentOn(i))
  /\ (Stepped(i) /\ runs[i].pc = "upload" /\ runs'[i].pc # "confirm"
       /\ runs[i].sop # NoUid) => Recorded(i)
  /\ (Stepped(i) /\ runs[i].pc = "release") =>
       orthanc[runs[i].dir] = [lock |-> FALSE, progress |-> "absent", temp |-> FALSE]

Ascending(files) ==
  \A k, l \in 1..Len(files) : k < l => files[k].path < files[l].path

\* C27: a run lists the files of its folder in ascending order of their
\* paths and starts with the first; inside the loop the list stays as it
\* is and each step either takes the current file from its check to its
\* upload or from its upload to its confirmation, or ends the work on the
\* current file and goes on to the next in order.
C27_Order ==
  [][\A i \in 1..Len(runs) :
       /\ (Stepped(i) /\ runs[i].pc = "begin" /\ runs'[i].pc = "check") =>
            /\ runs'[i].idx = 1 /\ Ascending(runs'[i].files)
            /\ {runs'[i].files[k] : k \in 1..Len(runs'[i].files)} = folderFiles[runs[i].dir]
       /\ (Stepped(i) /\ InLoop(i)) =>
            /\ runs'[i].files = runs[i].files
            /\ \/ /\ runs'[i].idx = runs[i].idx
                  /\ <<runs[i].pc, runs'[i].pc>> \in
                       {<<"check", "upload">>, <<"upload", "confirm">>}
               \/ WentOn(i) ]_vars

\* the first file of a run was uploaded and confirmed, the second, which
\* sorts after it, is about to be uploaded
C27_Witness ==
  \E i \in 1..Len(runs) :
    /\ runs[i].pc = "upload" /\ runs[i].idx = 2 /\ runs[i].invoked = 1
    /\ runs[i].failures = <<>> /\ runs[i].files[1].sop # NoUid
    /\ runs[i].files[1].path < runs[i].files[2].path

-----------------------------------------------------------------------------
(* Several threads use the token cache of one PacsUploader.                 *)

\* fetches one thread completes in one behaviour
MaxFetches == 2

\* the test of _get_token: access_token and time.time() < expires_at
Cached(tok, t) == tok.access_token # 0 /\ t < tok.expires_at

\* _get_token up to the POST of _fetch_token: the cached token is returned,
\* or the request to token_url is sent
Enter(t) ==
  /\ getters[t].pc = "out"
  /\ getters[t].fetched < MaxFetches
  /\ getters' = [getters EXCEPT ![t] =
       IF Cached(_token, now)
       THEN [@ EXCEPT !.pc = "has", !.token = _token.access_token]
       ELSE [@ EXCEPT !.pc = "fetching"]]
  /\ UNCHANGED <<_token, issued, granted, now, handed, sent, call>>
  /\ UNCHANGED <<upVars, scanVars, drvVars, thrVars, dayVars>>

\* the token endpoint answers: self._token = self._fetch_token(), or the
\* exception of _fetch_token leaves _get_token
Store(t) ==
  /\ getters[t].pc = "fetching"
  /\ \E ok \in BOOLEAN, e \in ExpiresIn :
       IF ok
       THEN /\ issued' = issued + 1
            /\ _token' = [access_token |-> issued + 1, expires_at |-> ExpiresAt(now, e)]
            /\ getters' = [getters EXCEPT ![t] =
                 [pc |-> "has", fetched |-> @.fetched + 1, token |-> issued + 1]]
       ELSE /\ getters' = [getters EXCEPT ![t] =
                 [pc |-> "out", fetched |-> @.fetched + 1, token |-> 0]]
            /\ UNCHANGED <<_token, issued>>
  /\ UNCHANGED <<granted, now, handed, sent, call>>
  /\ UNCHANGED <<upVars, scanVars, drvVars, thrVars, dayVars>>

\* a request of the thread is answered 401: self._token = _TokenState(),
\* and _get_token is called again
Unauthorized(t) ==
  /\ getters[t].pc = "has"
  /\ _token' = NoToken
  /\ getters' = [getters EXCEPT ![t] = [@ EXCEPT !.pc = "out", !.token = 0]]
  /\ UNCHANGED <<issued, granted, now, handed, sent, call>>
  /\ UNCHANGED <<upVars, scanVars, drvVars, thrVars, dayVars>>

\* the request method of the thread returns
Leave(t) ==
  /\ getters[t].pc = "has"
  /\ getters' = [getters EXCEPT ![t] = [@ EXCEPT !.pc = "out", !.token = 0]]
  /\ UNCHANGED <<_token, issued, granted, now, handed, sent, call>>
  /\ UNCHANGED <<upVars, scanVars, drvVars, thrVars, dayVars>>

NextTokenRace ==
  \/ \E t \in Threads : Enter(t)
  \/ \E t \in Threads : Store(t)
  \/ \E t \in Threads : Unauthorized(t)
  \/ \E t \in Threads : Leave(t)
  \/ Tick

SpecTokenRace == InitRequests /\ [][NextTokenRace]_vars

\* C36 as stated: when several threads use one PacsUploader, two token
\* fetches never overlap, and the cache holds no token or the complete pair
\* of one fetch.
C36_AsStated ==
  /\ \A t \in Threads, u \in Threads :
       (getters[t].pc = "fetching" /\ getters[u].pc = "fetching") => t = u
  /\ _token.access_token = 0 => _token = NoToken

-----------------------------------------------------------------------------
(* The two clock reads of find_cases.                                       *)

\* calls of find_cases in one behaviour
MaxFinds == 2

\* the imaging software saves a case into the root folder of the day
Arrive ==
  /\ dayroots[clock] < MaxDayCases
  /\ dayroots' = [dayroots EXCEPT ![clock] = @ + 1]
  /\ UNCHANGED <<clock, finder, placed>>
  /\ UNCHANGED <<upVars, scanVars, drvVars, reqVars, thrVars>>

\* the clock passes midnight
Midnight ==
  /\ clock < MaxDays
  /\ clock' = clock + 1
  /\ UNCHANGED <<dayroots, finder, placed>>
  /\ UNCHANGED <<upVars, scanVars, drvVars, reqVars, thrVars>>

\* ensure_today_staging_folder: Staging/YYYY/MM-YYYY/DD-MM-YYYY of
\* datetime.now(), read once
ensure_today_staging_folder(day) == day

\* find_cases up to today_staging_folder = self.ensure_today_staging_folder()
FindStaging ==
  /\ finder.pc = "idle"
  /\ finder.n < MaxFinds
  /\ finder' = [pc |-> "named", staging |-> ensure_today_staging_folder(clock),
                root |-> 0, pos |-> 0, n |-> finder.n + 1]
  /\ UNCHANGED <<clock, dayroots, placed>>
  /\ UNCHANGED <<upVars, scanVars, drvVars, reqVars, thrVars>>

\* today_folder_name = datetime.now().strftime(self.date_format): the root
\* folder of the day the clock shows now; no case folder: nothing to do
FindRoot ==
  /\ finder.pc = "named"
  /\ finder' = IF dayroots[clock] = 0
               THEN [finder EXCEPT !.pc = "idle", !.root = clock]
               ELSE [finder EXCEPT !.pc = "loop", !.root = clock, !.pos = 1]
  /\ UNCHANGED <<clock, dayroots, placed>>
  /\ UNCHANGED <<upVars, scanVars, drvVars, reqVars, thrVars>>

\* case_staging_folder = today_staging_folder / case.name, for the next
\* case of today_folder
FindStage ==
  /\ finder.pc = "loop"
  /\ placed' = placed \cup {[root |-> finder.root, case |-> finder.pos,
                              staged |-> finder.staging]}
  /\ finder' = IF finder.pos < dayroots[finder.root]
               THEN [finder EXCEPT !.pos = @ + 1]
               ELSE [finder EXCEPT !.pc = "idle"]
  /\ UNCHANGED <<clock, dayroots>>
  /\ UNCHANGED <<upVars, scanVars, drvVars, reqVars, thrVars>>

NextDays ==
  \/ Arrive
  \/ Midnight
  \/ FindStaging
  \/ FindRoot
  \/ FindStage

SpecDays == InitRequests /\ [][NextDays]_vars

\* C39 as stated: in every scan of find_cases the staging folder is that of
\* the day whose root folder is enumerated, also when midnight passes
\* between the two clock reads: no case found under the root of one day is
\* staged under the staging folder of another.
C39_AsStated ==
  /\ finder.pc = "loop" => finder.staging = finder.root
  /\ \A r \in placed : r.staged = r.root

\* ---------------------------------------------------------------------------
\* The upload throttle: PacsUploader.from_config, _refresh_runtime_config,
\* _get_runtime_max_upload_bps and upload_file._ProgressFile.
\* Time is time.monotonic() in half seconds, the period of the reload check.
\* ---------------------------------------------------------------------------

\* PACS_MAX_UPLOAD_BPS in KB/s; 0 stands for absent or <= 0
Caps == {0, 1, 2}

Kilo == 1024

\* bytes handed out by one call of read
ChunkSize == 1024

MaxMono == 5

MaxChunks == 2

MaxEdits == 1

\* the cap an operator reads off the machine: the environment, else the file
LiveCap(c) == IF c.env # Unset THEN c.env ELSE c.file

\* what os.getenv(...) or getattr(service_config, ...) gives the process
Raw(c) == IF c.env # Unset THEN c.env ELSE c.loaded

\* from_config: bytes per second, 0 for None
uploader_from_config(c) == IF Raw(c) > 0 THEN Raw(c) * Kilo ELSE 0

\* _refresh_runtime_config: the uploader and the module value after the call
_refresh_runtime_config(u, c, t) ==
  IF t - u.last_check < 1
  THEN [u |-> u, loaded |-> c.loaded]
  ELSE LET v == [u EXCEPT !.last_check = t]
       IN  IF u.mtime = Unset
           THEN [u |-> [v EXCEPT !.mtime = c.mtime], loaded |-> c.loaded]
           ELSE IF c.mtime # u.mtime
                THEN [u |-> [v EXCEPT !.mtime = c.mtime], loaded |-> c.file]
                ELSE [u |-> v, loaded |-> c.loaded]

\* _get_runtime_max_upload_bps, after the refresh: bytes per second, 0 for None
_get_runtime_max_upload_bps(u, c) ==
  IF Raw(c) > 0 THEN Raw(c) * Kilo ELSE u.max_upload_bps

\* half seconds after which the bytes sent are within max_bps bytes per second
ExpectedTicks(bytes, max_bps) == (2 * bytes + max_bps - 1) \div max_bps

InitThrottle ==
  /\ InitUploadIdle
  /\ InitDriverIdle
  /\ root = <<>> /\ staging = <<>> /\ scan = NoScan /\ last = NoStep /\ uid = 0
  /\ mono = 1
  /\ \E env \in {Unset} \cup Caps, file \in Caps :
       conf = [env |-> env, file |-> file, loaded |-> file, mtime |-> 0]
  /\ uploader = NoUploader
  /\ body = NoBody
  /\ chunk = NoChunk

\* PacsUploader.uploader_from_config() followed by __init__
Construct ==
  /\ ~uploader.built
  /\ uploader' = [built |-> TRUE, max_upload_bps |-> uploader_from_config(conf),
                  mtime |-> Unset, last_check |-> 0]
  /\ UNCHANGED <<mono, conf, body, chunk>>
  /\ UNCHANGED <<upVars, scanVars, drvVars, reqVars, dayVars>>

\* upload_file builds the _ProgressFile of one file
Open ==
  /\ uploader.built /\ ~body.open /\ chunk.n < MaxChunks
  /\ body' = [open |-> TRUE, n |-> 0, sent |-> 0, start |-> mono, resets |-> 0]
  /\ UNCHANGED <<mono, conf, uploader, chunk>>
  /\ UNCHANGED <<upVars, scanVars, drvVars, reqVars, dayVars>>

\* _ProgressFile.read of a non-empty chunk: count, consult the cap, sleep
Read ==
  /\ body.open /\ chunk.n < MaxChunks
  /\ LET got == _refresh_runtime_config(uploader, conf, mono)
         c == [conf EXCEPT !.loaded = got.loaded]
         max_bps == _get_runtime_max_upload_bps(got.u, c)
         _sent == body.sent + ChunkSize
         elapsed == mono - body.start
         wake == IF max_bps > 0 /\ ExpectedTicks(_sent, max_bps) > elapsed
                 THEN body.start + ExpectedTicks(_sent, max_bps)
                 ELSE mono
     IN  /\ wake <= MaxMono
         /\ mono' = wake
         /\ conf' = c
         /\ uploader' = got.u
         /\ body' = [body EXCEPT !.sent = _sent, !.n = @ + 1]
         /\ chunk' = [n |-> chunk.n + 1, sent |-> _sent, elapsed |-> wake - body.start,
                      cap |-> max_bps, live |-> LiveCap(conf), raw |-> Raw(c),
                      slept |-> wake > mono]
  /\ UNCHANGED <<upVars, scanVars, drvVars, reqVars, dayVars>>

\* _ProgressFile.reset, before the one retry of a 401
Reset ==
  /\ body.open /\ body.sent > 0 /\ body.resets = 0
  /\ body' = [body EXCEPT !.sent = 0, !.start = mono, !.resets = 1]
  /\ UNCHANGED <<mono, conf, uploader, chunk>>
  /\ UNCHANGED <<upVars, scanVars, drvVars, reqVars, dayVars>>

\* _ProgressFile.close
Close ==
  /\ body.open /\ body.sent > 0
  /\ body' = NoBody
  /\ UNCHANGED <<mono, conf, uploader, chunk>>
  /\ UNCHANGED <<upVars, scanVars, drvVars, reqVars, dayVars>>

\* service_config.py is saved with another cap
Edit ==
  /\ conf.mtime < MaxEdits
  /\ \E file \in Caps \ {conf.file} :
       conf' = [conf EXCEPT !.file = file, !.mtime = @ + 1]
  /\ UNCHANGED <<mono, uploader, body, chunk>>
  /\ UNCHANGED <<upVars, scanVars, drvVars, reqVars, dayVars>>

\* half a second passes
Elapse ==
  /\ mono < MaxMono
  /\ mono' = mono + 1
  /\ UNCHANGED <<conf, uploader, body, chunk>>
  /\ UNCHANGED <<upVars, scanVars, drvVars, reqVars, dayVars>>

NextThrottle ==
  \/ Construct
  \/ Open
  \/ Read
  \/ Reset
  \/ Close
  \/ Edit
  \/ Elapse

SpecThrottle == InitThrottle /\ [][NextThrottle]_vars

\* the last chunk was read under a cap of the live configuration
Capped == chunk.n > 0 /\ chunk.live > 0

\* C28 as the specification states it: whenever a chunk read returns while
\* the live configuration holds a cap of K KB/s, that cap is the one applied
\* to the chunk, and the bytes read since the start or the last reset of the
\* body are at most K*1024*t + chunkSize, t being the time since that start.
C28_AsStated ==
  Capped =>
    /\ chunk.cap = chunk.live * Kilo
    /\ 2 * chunk.sent <= chunk.live * Kilo * chunk.elapsed + 2 * ChunkSize

\* C29 as the specification states it: a chunk read while the live cap is
\* absent or <= 0, and the process reads it so, returns without a throttle
\* sleep, whatever cap the uploader was constructed with.
C29_AsStated ==
  (chunk.n > 0 /\ chunk.live <= 0 /\ chunk.raw <= 0) => ~chunk.slept

====
